---- MODULE Spec2Model ----
(***************************************************************************)
(* RealVectorDB (termscon_django/analyzer/vector_db_real.py): the two      *)
(* legal corpora, their eager and lazy loading, the cosine ranking and    *)
(* the fallback contexts, as a state machine.                             *)
(*                                                                         *)
(* Numbers.  A Python/numpy float is modelled as [num, den2], standing    *)
(* for the real number num / sqrt(den2); den2 = 0 stands for NaN (the     *)
(* value numpy gives for 0/0).  Comparisons are those of the reals, with  *)
(* every comparison against NaN false, as for IEEE floats; rounding is    *)
(* not modelled.  A vector is [dim, c]: its dimensionality and its first  *)
(* components (the others are zero).                                      *)
(***************************************************************************)
EXTENDS Integers, Sequences, FiniteSets, TLC

VARIABLES
    phase,                  \* "constructing" inside __init__, then "ready"
    civil_embeddings,       \* self.civil_embeddings
    criminal_embeddings,    \* self.criminal_embeddings
    civil_load_failed,      \* hasattr(self, '_civil_load_failed')
    criminal_load_failed,   \* hasattr(self, '_criminal_load_failed')
    civil_store,            \* what the ChromaDB collection holds
    criminal_store,         \* the rows the SQLite join returns
    civil_load_calls,       \* invocations of _load_civil_code_embeddings
    criminal_load_calls,    \* invocations of _load_criminal_code_embeddings
    call,                   \* the last get_legal_context call and its outcome
    civil_loader,           \* a run of _load_civil_code_embeddings, step by step
    app,                    \* a run of SimpleApp.analyze_text / analyze_clause
    threads,                \* the request threads sharing one RealVectorDB
    request,                \* a request to analyze_document and its answer
    criminal_loader         \* a run of _load_criminal_code_embeddings, step by step

vars == <<phase, civil_embeddings, criminal_embeddings, civil_load_failed,
          criminal_load_failed, civil_store, criminal_store,
          civil_load_calls, criminal_load_calls, call, civil_loader, app, threads, request,
                   criminal_loader>>

----------------------------------------------------------------------------
(* Bounds of the model *)

MaxCivilDocs == 3
MaxCriminalRows == 2
MaxN == 4

(* Constants of the program *)

PlaceholderDim == 384
MockEmbeddingDim == 1536
ThresholdNum == 3
ThresholdDen == 10
Float32Bytes == 4

NoneVal == [none |-> TRUE]

\* Truthy without the emptiness tests of lines 158 and 272: C15 does not
\* survive it
TruthyAlways(list) == Len(list) >= 0

Truthy(list) == Len(list) > 0

Min(a, b) == IF a < b THEN a ELSE b

Max(a, b) == IF a > b THEN a ELSE b

----------------------------------------------------------------------------
(* Floats and vectors *)

Float(n, d2) == [num |-> n, den2 |-> d2]

IsNaN(x) == x.den2 = 0

FloatEq(x, y) ==
    /\ ~IsNaN(x) /\ ~IsNaN(y)
    /\ x.num * y.num >= 0
    /\ x.num * x.num * y.den2 = y.num * y.num * x.den2

FloatLt(x, y) ==
    /\ ~IsNaN(x) /\ ~IsNaN(y)
    /\ IF x.num >= 0 /\ y.num >= 0
       THEN x.num * x.num * y.den2 < y.num * y.num * x.den2
       ELSE IF x.num < 0 /\ y.num < 0
       THEN x.num * x.num * y.den2 > y.num * y.num * x.den2
       ELSE x.num < 0

FloatGt(x, y) == FloatLt(y, x)

Vec(d, comps) == [dim |-> d, c |-> comps]

RECURSIVE DotFrom(_, _, _)
DotFrom(a, b, i) ==
    IF i > Len(a.c) THEN 0 ELSE a.c[i] * b.c[i] + DotFrom(a, b, i + 1)

np_dot(a, b) == DotFrom(a, b, 1)

(* _cosine_similarity: np.dot raises ValueError when the two shapes differ;
   0/0 is NaN (a warning, not an exception) when either norm is zero. *)
_cosine_similarity(a, b) ==
    IF a.dim # b.dim
    THEN [raised |-> TRUE, value |-> Float(0, 0)]
    ELSE [raised |-> FALSE,
          value |-> Float(np_dot(a, b), np_dot(a, a) * np_dot(b, b))]

----------------------------------------------------------------------------
(* list.sort(reverse=True) on (similarity, i) tuples, as CPython runs it on
   a list shorter than 64: reverse, find the leading run, binary insertion
   of the rest, reverse again. *)

\* tuple comparison: the first position whose items are not == decides
TupleLt(v, w) ==
    IF FloatEq(v[1], w[1]) THEN v[2] < w[2] ELSE FloatLt(v[1], w[1])

reverse_slice(s) == [i \in 1..Len(s) |-> s[Len(s) + 1 - i]]

RECURSIVE RunEnd(_, _, _)
RunEnd(s, n, descending) ==
    IF n < Len(s) /\ (TupleLt(s[n + 1], s[n]) = descending)
    THEN RunEnd(s, n + 1, descending)
    ELSE n

count_run(s) ==
    IF Len(s) <= 1
    THEN [n |-> Len(s), descending |-> FALSE]
    ELSE [n |-> RunEnd(s, 2, TupleLt(s[2], s[1])),
          descending |-> TupleLt(s[2], s[1])]

RECURSIVE BinarySearch(_, _, _, _)
BinarySearch(s, pivot, l, r) ==
    LET p == l + ((r - l) \div 2)
        l1 == IF TupleLt(pivot, s[p]) THEN l ELSE p + 1
        r1 == IF TupleLt(pivot, s[p]) THEN p ELSE r
    IN  IF l1 < r1 THEN BinarySearch(s, pivot, l1, r1) ELSE l1

RECURSIVE binarysort(_, _)
binarysort(s, start) ==
    IF start > Len(s)
    THEN s
    ELSE LET pos == BinarySearch(s, s[start], 1, start)
             moved == [i \in 1..Len(s) |->
                          IF i < pos \/ i > start THEN s[i]
                          ELSE IF i = pos THEN s[start]
                          ELSE s[i - 1]]
         IN  binarysort(moved, start + 1)

list_sort_reverse(list) ==
    LET s == reverse_slice(list)
        run == count_run(s)
        s1 == IF run.descending
              THEN [i \in 1..Len(s) |->
                       IF i <= run.n THEN s[run.n + 1 - i] ELSE s[i]]
              ELSE s
    IN  IF Len(s) < 2 THEN list
        ELSE reverse_slice(binarysort(s1, run.n + 1))

----------------------------------------------------------------------------
(* The embedding provider *)

QueryTexts == {"t1", "t2"}

\* SentenceTransformer('all-MiniLM-L6-v2').encode: one fixed vector per text
Encode(query_text) ==
    IF query_text = "t1"
    THEN Vec(PlaceholderDim, <<0, 1, 0, 0>>)
    ELSE Vec(PlaceholderDim, <<0, 0, 0, 1>>)

\* values np.random.random(384) can take
PlaceholderVecs ==
    {Vec(PlaceholderDim, <<1, 0, 0, 0>>), Vec(PlaceholderDim, <<0, 0, 1, 0>>)}

ProviderOk == [failed |-> FALSE, random |-> Vec(PlaceholderDim, <<1, 0, 0, 0>>)]

ProviderOutcomes ==
    {ProviderOk} \cup {[failed |-> TRUE, random |-> r] : r \in PlaceholderVecs}

_create_query_embedding(query_text, provider) ==
    IF provider.failed THEN provider.random ELSE Encode(query_text)

----------------------------------------------------------------------------
(* The fallback contexts *)

_fallback_civil_context ==
    << [text |-> "OZ1815", metadata |-> [paragraph |-> "1815"],
        similarity |-> Float(7, 100)],
       [text |-> "OZ1826", metadata |-> [paragraph |-> "1826"],
        similarity |-> Float(6, 100)],
       [text |-> "OZ1793", metadata |-> [paragraph |-> "1793"],
        similarity |-> Float(6, 100)],
       [text |-> "OZ1796", metadata |-> [paragraph |-> "1796"],
        similarity |-> Float(5, 100)] >>

_fallback_criminal_context ==
    << [paragraph_number |-> "1", text |-> "TZ1",
        similarity |-> Float(6, 100)],
       [paragraph_number |-> "209", text |-> "TZ209",
        similarity |-> Float(5, 100)] >>

----------------------------------------------------------------------------
(* The persisted stores.  A stored passage is named by a letter, which
   stands for its text and fixes its vector; its paragraph label is its
   position in the store. *)

PassageVec(p) ==
    CASE p = "A" -> Vec(PlaceholderDim, <<4, 3, 0, 0>>)
      [] p = "T" -> Vec(PlaceholderDim, <<3, 9, 3, 1>>)
      [] p = "Z" -> Vec(PlaceholderDim, <<0, 0, 0, 0>>)
      [] OTHER   -> Vec(MockEmbeddingDim, <<1, 0, 0, 0>>)

CivilPassages == {"A", "T", "Z"}

CriminalPassages == {"A", "Z"}

\* rows whose blob is not a vector of the corpus: "B" one byte too long, "E"
\* empty, "W" a vector of another dimensionality
MalformedPassages == {"B", "E", "W"}

\* a store holds well-formed rows, or rows "A" beside one kind of malformed row
CriminalPools == {CriminalPassages} \cup {{"A", m} : m \in MalformedPassages}

\* len(e.embedding) of a stored row
BlobBytes(p) ==
    CASE p = "B" -> Float32Bytes * PlaceholderDim + 1
      [] p = "E" -> 0
      [] OTHER   -> Float32Bytes * PassageVec(p).dim

SeqsUpTo(S, n) == UNION {[1..k -> S] : k \in 0..n}

\* collection.get(include=['documents', 'embeddings', 'metadatas'])
CollectionGet(rows, with_embeddings) ==
    [documents  |-> rows,
     embeddings |-> IF with_embeddings
                    THEN [i \in 1..Len(rows) |-> PassageVec(rows[i])]
                    ELSE <<>>,
     metadatas  |-> [i \in 1..Len(rows) |-> [paragraph |-> ToString(i)]]]

CivilStores ==
    {CollectionGet(rows, TRUE) :
        rows \in SeqsUpTo(CivilPassages, MaxCivilDocs) \cup {<<"W">>}}
    \cup {CollectionGet(<<"A">>, FALSE)}

\* a row of the join: (p.cislo, p.text, e.embedding)
Row(p, i) ==
    [cislo |-> ToString(i), text |-> p,
     embedding |-> [nbytes |-> BlobBytes(p),
                    floats |-> IF BlobBytes(p) = 0 THEN <<>>
                               ELSE PassageVec(p).c]]

CriminalStores ==
    {[i \in 1..Len(rows) |-> Row(rows[i], i)] :
        rows \in UNION {SeqsUpTo(pool, MaxCriminalRows) :
                            pool \in CriminalPools}}

\* the stores the model starts from: each corpus ranges over all its stores
\* while the other holds nothing or the single passage "A"
PlainRows == {<<>>, <<"A">>}

StorePairs ==
    {pair \in CivilStores \X CriminalStores :
        \/ \E rows \in PlainRows : pair[1] = CollectionGet(rows, TRUE)
        \/ \E rows \in PlainRows :
              pair[2] = [i \in 1..Len(rows) |-> Row(rows[i], i)]}

CivilStages ==
    {"import_error", "not_readable", "connect_failed", "no_collection",
     "get_raises", "ok"}

\* "ok": every stage succeeds and np.array refuses rows of different lengths
\* (numpy 1.24 and later); "ok_legacy_numpy": the same with a numpy that
\* packs such rows into an array of objects
CriminalStages ==
    {"file_missing", "not_readable", "operational_error", "ok",
     "ok_legacy_numpy"}

----------------------------------------------------------------------------
(* The loaders.  Each returns its boolean and the value it leaves in the
   field. *)

np_array(list) == [array |-> list]

\* the stages that fail by raising (the others fail by a test that returns)
CivilStageRaises ==
    {"import_error", "connect_failed", "no_collection", "get_raises"}

CriminalStageRaises == {"operational_error"}

\* the outermost try of a loader without its except clauses: C16 does not
\* survive it
PropagatesUncaught(raises) == raises

\* whether an exception raised inside a loader leaves it: the whole body is
\* inside try ... except Exception: return False
Propagates(raises) == FALSE

_load_civil_code_embeddings(current, stage, results) ==
    IF stage # "ok"
    THEN [ret |-> FALSE, raised |-> Propagates(stage \in CivilStageRaises),
          civil_embeddings |-> current]
    ELSE IF ~Truthy(results.documents)
    THEN [ret |-> FALSE, raised |-> FALSE, civil_embeddings |-> current]
    ELSE LET loaded ==
                 [documents  |-> results.documents,
                  embeddings |-> IF Truthy(results.embeddings)
                                 THEN np_array(results.embeddings)
                                 ELSE NoneVal,
                  metadatas  |-> results.metadatas]
         IN  [ret |-> loaded.embeddings # NoneVal, raised |-> FALSE,
              civil_embeddings |-> loaded]

\* np.frombuffer(blob, dtype=np.float32)
np_frombuffer(blob) ==
    IF blob.nbytes % Float32Bytes # 0
    THEN [raised |-> TRUE, value |-> Vec(0, <<>>)]
    ELSE [raised |-> FALSE,
          value |-> Vec(blob.nbytes \div Float32Bytes, blob.floats)]

\* RowIsKept without the except of lines 268-270: C13 does not survive it
RowIsKeptUndecoded(row) == row.embedding.nbytes > 0

RowIsKept(row) ==
    /\ row.embedding.nbytes > 0
    /\ ~np_frombuffer(row.embedding).raised

\* whether np.array(embeddings) gets rows of one length
Homogeneous(embeddings) ==
    \A i, j \in 1..Len(embeddings) : embeddings[i].dim = embeddings[j].dim

\* the criminal loader with documents.append(text) moved ahead of the
\* decoding of line 259, so that an undecodable row leaves its text behind:
\* C20 does not survive it
_load_criminal_code_embeddings_text_first(current, stage, rows) ==
    IF stage \notin {"ok", "ok_legacy_numpy"}
    THEN [ret |-> FALSE, raised |-> FALSE, criminal_embeddings |-> current]
    ELSE LET kept == SelectSeq(rows, RowIsKept)
             documents == [i \in 1..Len(rows) |-> rows[i].text]
             embeddings ==
                 [i \in 1..Len(kept) |-> np_frombuffer(kept[i].embedding).value]
             metadatas ==
                 [i \in 1..Len(kept) |-> [paragraph_number |-> kept[i].cislo]]
         IN  IF ~(Truthy(documents) /\ Truthy(embeddings))
             THEN [ret |-> FALSE, raised |-> FALSE,
                   criminal_embeddings |-> current]
             ELSE [ret |-> TRUE, raised |-> FALSE,
                   criminal_embeddings |->
                       [documents  |-> documents,
                        embeddings |-> np_array(embeddings),
                        metadatas  |-> metadatas]]

_load_criminal_code_embeddings(current, stage, rows) ==
    IF stage \notin {"ok", "ok_legacy_numpy"}
    THEN [ret |-> FALSE, raised |-> Propagates(stage \in CriminalStageRaises),
          criminal_embeddings |-> current]
    ELSE LET kept == SelectSeq(rows, RowIsKept)
             documents == [i \in 1..Len(kept) |-> kept[i].text]
             embeddings ==
                 [i \in 1..Len(kept) |-> np_frombuffer(kept[i].embedding).value]
             metadatas ==
                 [i \in 1..Len(kept) |-> [paragraph_number |-> kept[i].cislo]]
         IN  IF ~(Truthy(documents) /\ Truthy(embeddings))
             THEN [ret |-> FALSE, raised |-> FALSE,
                   criminal_embeddings |-> current]
             ELSE IF stage = "ok" /\ ~Homogeneous(embeddings)
             THEN \* ValueError of np.array, caught on line 298
                  [ret |-> FALSE, raised |-> Propagates(TRUE),
                   criminal_embeddings |-> current]
             ELSE [ret |-> TRUE, raised |-> FALSE,
                   criminal_embeddings |->
                       [documents  |-> documents,
                        embeddings |-> np_array(embeddings),
                        metadatas  |-> metadatas]]

----------------------------------------------------------------------------
(* The two searches.  Each returns what it leaves in the object's fields and
   what it hands back: the list, whether the list came from the index,
   whether the embedding provider was asked, whether an exception left it. *)

Threshold == Float(ThresholdNum, ThresholdDen * ThresholdDen)

EmptyDict == [empty |-> TRUE]

NoQuery == Vec(0, <<>>)

AboveThreshold(t) == FloatGt(t[1], Threshold)

\* the (similarity, i) list of lines 336-339 and whether np.dot raised
Similarities(query_embedding, matrix) ==
    [raised |-> \E i \in 1..Len(matrix) : query_embedding.dim # matrix[i].dim,
     list   |-> [i \in 1..Len(matrix) |->
                    <<_cosine_similarity(query_embedding, matrix[i]).value,
                      i - 1>>]]

\* TopRelevant without the threshold test of line 346: C8 does not survive it
TopRelevantUnfiltered(similarities, n_results) ==
    SubSeq(list_sort_reverse(similarities), 1,
           Min(n_results, Len(similarities)))

\* TopRelevant without the slice [:n_results] of lines 345 / 382: C27 does
\* not survive it
TopRelevantUncut(similarities, n_results) ==
    SelectSeq(list_sort_reverse(similarities), AboveThreshold)

\* similarities.sort(reverse=True); similarities[:n_results]; similarity > 0.3
TopRelevant(similarities, n_results) ==
    SelectSeq(SubSeq(list_sort_reverse(similarities), 1,
                     Min(n_results, Len(similarities))),
              AboveThreshold)

\* Found without the substitution of line 353 (results returned as ranked,
\* even when empty): C1 does not survive it
FoundWithoutFallback(fields, n_results, provider_failed, query, entries, fallback) ==
    [k |-> n_results, embeddings |-> fields.embeddings, load_failed |-> fields.load_failed,
     loads |-> fields.loads, embedded |-> TRUE,
     provider_failed |-> provider_failed, query |-> query, raised |-> FALSE,
     from_index |-> Truthy(entries),
     results |-> entries]

\* Found after a ranking that reorders the stored documents in place: C22
\* does not survive it
FoundReordering(fields, n_results, provider_failed, query, entries, fallback) ==
    [k |-> n_results,
     embeddings |-> [fields.embeddings EXCEPT
                         !.documents = reverse_slice(@)],
     load_failed |-> fields.load_failed,
     loads |-> fields.loads, embedded |-> TRUE,
     provider_failed |-> provider_failed, query |-> query, raised |-> FALSE,
     from_index |-> Truthy(entries),
     results |-> IF Truthy(entries) THEN entries ELSE fallback]

Found(fields, n_results, provider_failed, query, entries, fallback) ==
    [k |-> n_results, embeddings |-> fields.embeddings, load_failed |-> fields.load_failed,
     loads |-> fields.loads, embedded |-> TRUE,
     provider_failed |-> provider_failed, query |-> query, raised |-> FALSE,
     from_index |-> Truthy(entries),
     results |-> IF Truthy(entries) THEN entries ELSE fallback]

Raised(fields, n_results, provider_failed, query) ==
    [k |-> n_results, embeddings |-> fields.embeddings, load_failed |-> fields.load_failed,
     loads |-> fields.loads, embedded |-> TRUE,
     provider_failed |-> provider_failed, query |-> query, raised |-> TRUE,
     from_index |-> FALSE, results |-> <<>>]

\* Fallback cut to the first n_results entries: C9 does not survive it
FallbackTruncated(fields, n_results, fallback) ==
    [k |-> n_results, embeddings |-> fields.embeddings, load_failed |-> fields.load_failed,
     loads |-> fields.loads, embedded |-> FALSE, provider_failed |-> FALSE,
     query |-> NoQuery, raised |-> FALSE, from_index |-> FALSE,
     results |-> SubSeq(fallback, 1, Min(n_results, Len(fallback)))]

Fallback(fields, n_results, fallback) ==
    [k |-> n_results, embeddings |-> fields.embeddings, load_failed |-> fields.load_failed,
     loads |-> fields.loads, embedded |-> FALSE, provider_failed |-> FALSE,
     query |-> NoQuery, raised |-> FALSE, from_index |-> FALSE,
     results |-> fallback]

\* civil_access without the hasattr test of line 321 (the load is tried again
\* although the latch is set): C4 does not survive it
civil_access_retry(current, load_failed, stage, store) ==
    LET try_load == current = NoneVal
        load == _load_civil_code_embeddings(current, stage, store)
        after == IF try_load THEN load.civil_embeddings ELSE current
    IN  [embeddings  |-> after,
         load_failed |-> load_failed \/ (try_load /\ ~load.ret),
         loads       |-> IF try_load THEN 1 ELSE 0,
         usable      |-> IF try_load /\ ~load.ret THEN FALSE
                         ELSE IF after = NoneVal THEN FALSE
                         ELSE after.embeddings # NoneVal]

\* lines 321-330: the lazy load, the latch, and whether an index is there
civil_access(current, load_failed, stage, store) ==
    LET try_load == current = NoneVal /\ ~load_failed
        load == _load_civil_code_embeddings(current, stage, store)
        after == IF try_load THEN load.civil_embeddings ELSE current
    IN  [embeddings  |-> after,
         load_failed |-> load_failed \/ (try_load /\ ~load.ret),
         loads       |-> IF try_load THEN 1 ELSE 0,
         usable      |-> IF try_load /\ ~load.ret THEN FALSE
                         ELSE IF after = NoneVal THEN FALSE
                         ELSE after.embeddings # NoneVal]

\* lines 344-351: the entries built from the kept (similarity, i) pairs
civil_entries(emb, kept) ==
    [j \in 1..Len(kept) |->
        [text |-> emb.documents[kept[j][2] + 1],
         metadata |-> IF Truthy(emb.metadatas)
                      THEN emb.metadatas[kept[j][2] + 1]
                      ELSE EmptyDict,
         similarity |-> kept[j][1]]]

\* lines 332-353, once an index is there
civil_rank(fields, provider_failed, query_embedding, sims, n_results) ==
    IF sims.raised
    THEN Raised(fields, n_results, provider_failed, query_embedding)
    ELSE Found(fields, n_results, provider_failed, query_embedding,
               civil_entries(fields.embeddings,
                             TopRelevant(sims.list, n_results)),
               _fallback_civil_context)

civil_search(fields, provider_failed, query_embedding, n_results) ==
    IF ~fields.usable
    THEN Fallback(fields, n_results, _fallback_civil_context)
    ELSE civil_rank(fields, provider_failed, query_embedding,
                    Similarities(query_embedding,
                                 fields.embeddings.embeddings.array),
                    n_results)

search_civil_code(current, load_failed, query_text, n_results, stage, store, provider) ==
    civil_search(civil_access(current, load_failed, stage, store),
                 provider.failed,
                 _create_query_embedding(query_text, provider), n_results)

\* criminal_access without the hasattr test of line 358: C25 does not
\* survive it
criminal_access_retry(current, load_failed, stage, store) ==
    LET try_load == current = NoneVal
        load == _load_criminal_code_embeddings(current, stage, store)
        after == IF try_load THEN load.criminal_embeddings ELSE current
    IN  [embeddings  |-> after,
         load_failed |-> load_failed \/ (try_load /\ ~load.ret),
         loads       |-> IF try_load THEN 1 ELSE 0,
         usable      |-> IF try_load /\ ~load.ret THEN FALSE
                         ELSE IF after = NoneVal THEN FALSE
                         ELSE after.embeddings # NoneVal]

\* lines 358-367
criminal_access(current, load_failed, stage, store) ==
    LET try_load == current = NoneVal /\ ~load_failed
        load == _load_criminal_code_embeddings(current, stage, store)
        after == IF try_load THEN load.criminal_embeddings ELSE current
    IN  [embeddings  |-> after,
         load_failed |-> load_failed \/ (try_load /\ ~load.ret),
         loads       |-> IF try_load THEN 1 ELSE 0,
         usable      |-> IF try_load /\ ~load.ret THEN FALSE
                         ELSE IF after = NoneVal THEN FALSE
                         ELSE after.embeddings # NoneVal]

\* lines 381-388
criminal_entries(emb, kept) ==
    [j \in 1..Len(kept) |->
        [text |-> emb.documents[kept[j][2] + 1],
         paragraph_number |-> emb.metadatas[kept[j][2] + 1].paragraph_number,
         similarity |-> kept[j][1]]]

\* lines 369-390, once an index is there
criminal_rank(fields, provider_failed, query_embedding, sims, n_results) ==
    IF sims.raised
    THEN Raised(fields, n_results, provider_failed, query_embedding)
    ELSE Found(fields, n_results, provider_failed, query_embedding,
               criminal_entries(fields.embeddings,
                                TopRelevant(sims.list, n_results)),
               _fallback_criminal_context)

criminal_search(fields, provider_failed, query_embedding, n_results) ==
    IF ~fields.usable
    THEN Fallback(fields, n_results, _fallback_criminal_context)
    ELSE criminal_rank(fields, provider_failed, query_embedding,
                       Similarities(query_embedding,
                                    fields.embeddings.embeddings.array),
                       n_results)

search_criminal_code(current, load_failed, query_text, n_results, stage, store, provider) ==
    criminal_search(criminal_access(current, load_failed, stage, store),
                    provider.failed,
                    _create_query_embedding(query_text, provider), n_results)

----------------------------------------------------------------------------
(* The object *)

NoSearch ==
    [invoked |-> FALSE, k |-> 0, loads |-> 0, embedded |-> FALSE,
     provider_failed |-> FALSE, query |-> NoQuery, raised |-> FALSE,
     from_index |-> FALSE, results |-> <<>>]

Report(out) ==
    [invoked |-> TRUE, k |-> out.k, loads |-> out.loads,
     embedded |-> out.embedded, provider_failed |-> out.provider_failed,
     query |-> out.query, raised |-> out.raised,
     from_index |-> out.from_index, results |-> out.results]

NoCall ==
    [status |-> "none", query_text |-> "", n_results |-> 0,
     civil |-> NoSearch, criminal |-> NoSearch]

\* nothing is running
Idle == [pc |-> "idle"]

\* __init__, lines 11-14, up to the call of _initialize_databases
Init ==
    /\ phase = "constructing"
    /\ civil_embeddings = NoneVal
    /\ criminal_embeddings = NoneVal
    /\ civil_load_failed = FALSE
    /\ criminal_load_failed = FALSE
    /\ \E pair \in StorePairs :
          /\ civil_store = pair[1]
          /\ criminal_store = pair[2]
    /\ civil_load_calls = 0
    /\ criminal_load_calls = 0
    /\ call = NoCall
    /\ civil_loader = Idle
    /\ app = Idle
    /\ threads = Idle
    /\ request = Idle
    /\ criminal_loader = Idle

\* _initialize_databases: the criminal corpus first, then the civil one
InitializeDatabases ==
    /\ phase = "constructing"
    /\ \E criminal_stage \in CriminalStages, civil_stage \in CivilStages :
          LET criminal == _load_criminal_code_embeddings(
                              criminal_embeddings, criminal_stage,
                              criminal_store)
              civil == _load_civil_code_embeddings(
                           civil_embeddings, civil_stage, civil_store)
          IN  /\ criminal_embeddings' = criminal.criminal_embeddings
              /\ civil_embeddings' = civil.civil_embeddings
    /\ criminal_load_calls' = criminal_load_calls + 1
    /\ civil_load_calls' = civil_load_calls + 1
    /\ phase' = "ready"
    /\ UNCHANGED <<civil_load_failed, criminal_load_failed, civil_store,
                   criminal_store, call, civil_loader, app, threads, request,
                   criminal_loader>>

\* criminal_n_results without the max(1, ...) of line 397: C10 does not
\* survive it
criminal_n_results_floor(n_results) == n_results \div 2

\* the n_results get_legal_context passes to search_criminal_code
criminal_n_results(n_results) == Max(1, n_results \div 2)

\* the n_results get_legal_context passes to search_civil_code
civil_n_results(n_results) == n_results

\* lines 396-408: what the call leaves in the fields and what the caller
\* sees; an exception in the civil search skips the criminal one
Bundle(query_text, n_results, civil, criminal) ==
    [civil_embeddings |-> civil.embeddings,
     civil_load_failed |-> civil.load_failed,
     criminal_embeddings |-> IF civil.raised THEN criminal_embeddings
                             ELSE criminal.embeddings,
     criminal_load_failed |-> IF civil.raised THEN criminal_load_failed
                              ELSE criminal.load_failed,
     call |-> [status |-> IF civil.raised \/ criminal.raised THEN "raised"
                          ELSE "returned",
               query_text |-> query_text,
               n_results |-> n_results,
               civil |-> Report(civil),
               criminal |-> IF civil.raised THEN NoSearch
                            ELSE Report(criminal)]]

get_legal_context(query_text, n_results, civil_stage, civil_provider, criminal_stage, criminal_provider) ==
    Bundle(query_text, n_results,
           search_civil_code(
               civil_embeddings, civil_load_failed, query_text,
               civil_n_results(n_results), civil_stage, civil_store,
               civil_provider),
           search_criminal_code(
               criminal_embeddings, criminal_load_failed, query_text,
               criminal_n_results(n_results), criminal_stage, criminal_store,
               criminal_provider))

\* the inputs a call reads: a store's condition only when it loads, the
\* provider only when it ranks
StagesRead(access, stages) == IF access.loads = 1 THEN stages ELSE {"ok"}

ProvidersRead(access) ==
    IF access.usable THEN ProviderOutcomes ELSE {ProviderOk}

GetLegalContext ==
    /\ phase = "ready"
    /\ call = NoCall
    /\ \E query_text \in QueryTexts, n_results \in 1..MaxN :
       \E civil_stage \in
              StagesRead(civil_access(civil_embeddings, civil_load_failed,
                                      "ok", civil_store), CivilStages),
          criminal_stage \in
              StagesRead(criminal_access(criminal_embeddings,
                                         criminal_load_failed, "ok",
                                         criminal_store), CriminalStages) :
       \E civil_provider \in
              ProvidersRead(civil_access(civil_embeddings, civil_load_failed,
                                         civil_stage, civil_store)),
          criminal_provider \in
              ProvidersRead(criminal_access(criminal_embeddings,
                                            criminal_load_failed,
                                            criminal_stage, criminal_store)) :
       \E out \in {get_legal_context(query_text, n_results, civil_stage,
                                      civil_provider, criminal_stage,
                                      criminal_provider)} :
              /\ ~out.call.criminal.invoked =>
                     /\ criminal_stage = "ok"
                     /\ criminal_provider = ProviderOk
              /\ civil_embeddings' = out.civil_embeddings
              /\ civil_load_failed' = out.civil_load_failed
              /\ criminal_embeddings' = out.criminal_embeddings
              /\ criminal_load_failed' = out.criminal_load_failed
              /\ civil_load_calls' =
                     civil_load_calls + out.call.civil.loads
              /\ criminal_load_calls' =
                     criminal_load_calls + out.call.criminal.loads
              /\ call' = out.call
    /\ UNCHANGED <<phase, civil_store, criminal_store, civil_loader, app, threads, request,
                   criminal_loader>>

\* the caller takes the outcome (TermsAnalyzer.analyze_text hands the bundle
\* to the clause analysis and goes on to its next clause)
Deliver ==
    /\ call # NoCall
    /\ call' = NoCall
    /\ UNCHANGED <<phase, civil_embeddings, criminal_embeddings,
                   civil_load_failed, criminal_load_failed, civil_store,
                   criminal_store, civil_load_calls, criminal_load_calls,
                   civil_loader, app, threads, request,
                   criminal_loader>>

Next == InitializeDatabases \/ GetLegalContext \/ Deliver

Spec == Init /\ [][Next]_vars

----------------------------------------------------------------------------
(* _load_civil_code_embeddings step by step: the connection attempts of
   lines 97-129, the choice of the collection (lines 131-151) and the
   retrieval (lines 153-179).  A candidate connection either raises, or
   opens on a database without collections, or opens on one that has the
   collection "civil_code", or opens on one that has only other
   collections. *)

ConnectionAttempts == 4

ConnectionOutcomes ==
    {"raises", "no_collections", "civil_code", "other_collection"}

\* attempts 1 and 2 open the same directory: when both open they find the
\* same collections
Candidates ==
    {c \in [1..ConnectionAttempts -> ConnectionOutcomes] :
        (c[1] # "raises" /\ c[2] # "raises") => c[1] = c[2]}

\* what the collection reached by a run can hold
LoaderStores ==
    {CollectionGet(<<>>, TRUE), CollectionGet(<<"A">>, TRUE),
     CollectionGet(<<"A">>, FALSE)}

LoaderInit ==
    /\ phase = "constructing"
    /\ civil_embeddings = NoneVal
    /\ criminal_embeddings = NoneVal
    /\ civil_load_failed = FALSE
    /\ criminal_load_failed = FALSE
    /\ civil_store \in LoaderStores
    /\ criminal_store = <<>>
    /\ civil_load_calls = 1
    /\ criminal_load_calls = 0
    /\ call = NoCall
    /\ \E c \in Candidates :
           civil_loader = [pc |-> "attempts", candidates |-> c, i |-> 1,
                           tried |-> 0, client |-> 0, collection |-> "none",
                           ret |-> FALSE]
    /\ app = Idle
    /\ threads = Idle
    /\ request = Idle
    /\ criminal_loader = Idle

\* one turn of the loop of lines 113-125
ConnectionAttempt ==
    /\ civil_loader.pc = "attempts"
    /\ civil_loader' =
           IF civil_loader.candidates[civil_loader.i] = "raises"
           THEN IF civil_loader.i = ConnectionAttempts
                THEN [civil_loader EXCEPT !.pc = "done", !.ret = FALSE,
                                          !.tried = civil_loader.i]
                ELSE [civil_loader EXCEPT !.i = civil_loader.i + 1,
                                          !.tried = civil_loader.i]
           ELSE [civil_loader EXCEPT !.pc = "get_collection",
                                     !.client = civil_loader.i,
                                     !.tried = civil_loader.i]
    /\ UNCHANGED <<phase, civil_embeddings, criminal_embeddings,
                   civil_load_failed, criminal_load_failed, civil_store,
                   criminal_store, civil_load_calls, criminal_load_calls,
                   call, app, threads, request,
                   criminal_loader>>

\* lines 131-151: "civil_code", else the first collection listed, else False
GetCollection ==
    /\ civil_loader.pc = "get_collection"
    /\ civil_loader' =
           CASE civil_loader.candidates[civil_loader.client] = "civil_code" ->
                    [civil_loader EXCEPT !.pc = "get",
                                         !.collection = "civil_code"]
             [] civil_loader.candidates[civil_loader.client]
                    = "other_collection" ->
                    [civil_loader EXCEPT !.pc = "get",
                                         !.collection = "first_listed"]
             [] OTHER ->
                    [civil_loader EXCEPT !.pc = "done", !.ret = FALSE]
    /\ UNCHANGED <<phase, civil_embeddings, criminal_embeddings,
                   civil_load_failed, criminal_load_failed, civil_store,
                   criminal_store, civil_load_calls, criminal_load_calls,
                   call, app, threads, request,
                   criminal_loader>>

\* lines 153-179: collection.get and what it leaves in self.civil_embeddings
GetDocuments ==
    /\ civil_loader.pc = "get"
    /\ \E stage \in {"get_raises", "ok"} :
           /\ civil_embeddings' =
                  _load_civil_code_embeddings(civil_embeddings, stage,
                                              civil_store).civil_embeddings
           /\ civil_loader' =
                  [civil_loader EXCEPT
                       !.pc = "done",
                       !.ret = _load_civil_code_embeddings(
                                   civil_embeddings, stage, civil_store).ret]
    /\ UNCHANGED <<phase, criminal_embeddings, civil_load_failed,
                   criminal_load_failed, civil_store, criminal_store,
                   civil_load_calls, criminal_load_calls, call, app, threads, request,
                   criminal_loader>>

LoaderNext == ConnectionAttempt \/ GetCollection \/ GetDocuments

LoaderSpec == LoaderInit /\ [][LoaderNext]_vars

----------------------------------------------------------------------------
(* SimpleApp.analyze_text (main.py) with SimpleTextProcessor and the clause
   analyzers.  A text is the sequence of its tokens once line 11 of
   text_processing_simple.py has collapsed its whitespace: each token ends
   with a full stop and is either a list marker ("2.") or a sentence of a
   given number of characters; tokens are separated by one space.  The
   empty sequence is a blank text. *)

MaxTokens == 4

MinSplitChars == 20
MinClauseChars == 30
LongTextChars == 500
MinClauseSize == 3
ClauseSizeDivisor == 10
MarkerChars == 2

SentenceChars == {15, 25, 40, 200}

Tokens ==
    {[kind |-> "marker", chars |-> MarkerChars]}
    \cup {[kind |-> "sentence", chars |-> n] : n \in SentenceChars}

Texts == SeqsUpTo(Tokens, MaxTokens)

RECURSIVE SumChars(_, _)
SumChars(tokens, i) ==
    IF i > Len(tokens) THEN 0 ELSE tokens[i].chars + SumChars(tokens, i + 1)

\* len() of the tokens joined by single spaces
TextChars(tokens) ==
    IF Len(tokens) = 0 THEN 0 ELSE SumChars(tokens, 1) + Len(tokens) - 1

\* where the piece that starts at token from ends: before the next marker
RECURSIVE PieceEnd(_, _)
PieceEnd(tokens, from) ==
    IF from = Len(tokens) THEN from
    ELSE IF tokens[from + 1].kind = "marker" THEN from
    ELSE PieceEnd(tokens, from + 1)

\* re.split(r'(?<=\.)\s*(?=\d+\.)', text): a cut before every marker that
\* follows a full stop
RECURSIVE re_split_numbered(_, _)
re_split_numbered(tokens, from) ==
    IF from > Len(tokens) THEN <<>>
    ELSE <<SubSeq(tokens, from, PieceEnd(tokens, from))>>
         \o re_split_numbered(tokens, PieceEnd(tokens, from) + 1)

re_search_numbered(tokens) ==
    \E i \in 2..Len(tokens) : tokens[i].kind = "marker"

Substantial(piece) == TextChars(piece) > MinSplitChars

\* lines 21-27
numbered_clauses(tokens) ==
    IF /\ re_search_numbered(tokens)
       /\ Len(SelectSeq(re_split_numbered(tokens, 1), Substantial)) > 1
    THEN SelectSeq(re_split_numbered(tokens, 1), Substantial)
    ELSE <<>>

\* lines 50-63: chunks of clause_size sentences
sentence_clauses(tokens, clause_size) ==
    [j \in 1..((Len(tokens) + clause_size - 1) \div clause_size) |->
        SubSeq(tokens, (j - 1) * clause_size + 1,
               Min(j * clause_size, Len(tokens)))]

\* lines 13-67; the patterns of lines 31-39 all need a newline, and line 11
\* has left none, so the general patterns never match
candidate_clauses(tokens) ==
    IF Truthy(numbered_clauses(tokens)) THEN numbered_clauses(tokens)
    ELSE IF TextChars(tokens) > LongTextChars
    THEN sentence_clauses(tokens,
                          Max(MinClauseSize, Len(tokens) \div ClauseSizeDivisor))
    ELSE <<tokens>>

LongEnough(clause) == TextChars(clause) > MinClauseChars

\* lines 69-75 without the "else [text]" of line 75: C17 does not survive it
final_clauses_unguarded(clauses, tokens) == SelectSeq(clauses, LongEnough)

\* lines 69-75
final_clauses(clauses, tokens) ==
    IF Truthy(SelectSeq(clauses, LongEnough))
    THEN SelectSeq(clauses, LongEnough)
    ELSE <<tokens>>

segment_terms_conditions(tokens) ==
    final_clauses(candidate_clauses(tokens), tokens)

(* The clause analyzers.  What the model reads from the language model is
   the kind of its answer and, when the answer holds a JSON value, its shape,
   the key under which the risk is given, the risk itself and whether the
   other fields have the types asked for. *)

Levels == {"Low", "Medium", "High", "Critical"}

RiskValues == Levels \cup {"missing", "low", "not_a_string"}

JsonData ==
    {[shape |-> "list", key |-> "risk_level", value |-> "missing",
      typed |-> TRUE]}
    \cup [shape : {"dict"}, key : {"risk_level", "risk"}, value : RiskValues,
          typed : BOOLEAN]

NoData == [shape |-> "none", key |-> "risk_level", value |-> "missing",
           typed |-> TRUE]

Responses ==
    {[kind |-> k, data |-> NoData] :
        k \in {"api_error", "not_json", "braces_not_json"}}
    \cup [kind : {"json", "json_in_text"}, data : JsonData]

\* the categories of risk_keywords found in a clause
KeywordSets ==
    {{}, {"low"}, {"medium", "low"}, {"high", "medium"}, {"critical", "high"}}

Analyzers == {"mock", "real", "optimized", "gpt"}

\* the enum RiskLevel with any value accepted: C18 does not survive it
RiskLevelUnchecked(value) == [raised |-> FALSE, value |-> value]

\* RiskLevel(value): ValueError for a value that is no member
RiskLevel(value) == [raised |-> value \notin Levels, value |-> value]

\* what a ClauseAnalysis carries of interest, or the exception that left
ClauseResult(risk_level) == [raised |-> FALSE, risk_level |-> risk_level]

\* SimpleGPTAnalyzer._mock_analyze_clause: the first category found, in the
\* order critical, high, medium, low, decides
_mock_analyze_clause(keywords) ==
    ClauseResult(IF "critical" \in keywords THEN "Critical"
                 ELSE IF "high" \in keywords THEN "High"
                 ELSE IF "medium" \in keywords THEN "Medium"
                 ELSE "Low")

\* dict.get(key, "Medium") on the parsed answer
dict_get(data, key) ==
    IF data.key = key /\ data.value # "missing" THEN data.value ELSE "Medium"

\* the fallback dictionaries of the analyzers: risk Medium, fields well typed
_fallback_analysis(key) ==
    [shape |-> "dict", key |-> key, value |-> "Medium", typed |-> TRUE]

\* json.loads, then the search for {...} and a second json.loads
parse_with_extraction(response, key) ==
    IF response.kind \in {"json", "json_in_text"} THEN response.data
    ELSE _fallback_analysis(key)

\* json.loads alone
parse_strict(response, key) ==
    IF response.kind = "json" THEN response.data ELSE _fallback_analysis(key)

\* RealGPTAnalyzer._validate_analysis_data: the risk_level it leaves
_validate_analysis_data(data) ==
    IF dict_get(data, "risk_level") \notin Levels THEN "Medium"
    ELSE dict_get(data, "risk_level")

\* the ClauseAnalysis built in the except Exception clause of an analyzer
_create_fallback_analysis == ClauseResult("Medium")

\* the ClauseAnalysis of the try block, unless RiskLevel raised inside it
Built(level) ==
    IF level.raised THEN _create_fallback_analysis
    ELSE ClauseResult(level.value)

\* RealGPTAnalyzer.analyze_clause, lines 63-107
real_analyze_clause(response) ==
    IF response.kind = "api_error" THEN _create_fallback_analysis
    ELSE IF parse_with_extraction(response, "risk_level").shape # "dict"
    THEN _create_fallback_analysis
    ELSE Built(RiskLevel(_validate_analysis_data(
                   parse_with_extraction(response, "risk_level"))))

\* OptimizedGPTAnalyzer.analyze_clause, lines 50-95
optimized_analyze_clause(response) ==
    IF response.kind = "api_error" THEN _create_fallback_analysis
    ELSE IF parse_with_extraction(response, "risk").shape # "dict"
    THEN _create_fallback_analysis
    ELSE IF ~parse_with_extraction(response, "risk").typed
    THEN _create_fallback_analysis
    ELSE Built(RiskLevel(
             IF dict_get(parse_with_extraction(response, "risk"), "risk")
                    \notin Levels
             THEN "Medium"
             ELSE dict_get(parse_with_extraction(response, "risk"), "risk")))

\* GPTAnalyzer.analyze_clause, lines 56-103
gpt_analyze_clause(response) ==
    IF response.kind = "api_error" THEN _create_fallback_analysis
    ELSE IF parse_strict(response, "risk_level").shape # "dict"
    THEN _create_fallback_analysis
    ELSE IF ~parse_strict(response, "risk_level").typed
    THEN _create_fallback_analysis
    ELSE Built(RiskLevel(dict_get(parse_strict(response, "risk_level"),
                                  "risk_level")))

\* what an analyzer reads beside the clause
Inputs(analyzer) == IF analyzer = "mock" THEN KeywordSets ELSE Responses

analyze_clause(analyzer, input) ==
    CASE analyzer = "mock"      -> _mock_analyze_clause(input)
      [] analyzer = "real"      -> real_analyze_clause(input)
      [] analyzer = "optimized" -> optimized_analyze_clause(input)
      [] OTHER                  -> gpt_analyze_clause(input)

(* SimpleApp.analyze_text *)

\* the analyzers SimpleApp.__init__ can choose (lines 71-80)
AppAnalyzers == {"mock", "real"}

\* the answers drawn for the clauses of a whole text
TextResponses ==
    {r \in Responses :
        \/ r.kind \in {"api_error", "not_json"}
        \/ /\ r.kind = "json"
           /\ r.data.shape = "dict"
           /\ r.data.key = "risk_level"
           /\ r.data.typed
           /\ r.data.value \in {"Low", "High", "low"}}

TextInputs(analyzer) ==
    IF analyzer = "mock" THEN KeywordSets ELSE TextResponses

Count(analyses, level) ==
    Cardinality({i \in 1..Len(analyses) : analyses[i].risk_level = level})

\* overall_risk with >= for > in the test of line 121: C24 does not survive
\* it
overall_risk_ties_medium(analyses) ==
    IF Count(analyses, "Critical") > 0 THEN "Critical"
    ELSE IF Count(analyses, "High") > 0 THEN "High"
    ELSE IF Count(analyses, "Medium") >= Count(analyses, "Low") THEN "Medium"
    ELSE "Low"

\* lines 111-124
overall_risk(analyses) ==
    IF Count(analyses, "Critical") > 0 THEN "Critical"
    ELSE IF Count(analyses, "High") > 0 THEN "High"
    ELSE IF Count(analyses, "Medium") > Count(analyses, "Low") THEN "Medium"
    ELSE "Low"

\* lines 129-136
OverallSummary(analyses) ==
    [overall_risk_score |-> overall_risk(analyses),
     total_clauses      |-> Len(analyses),
     high_risk_count    |-> Count(analyses, "High")
                                + Count(analyses, "Critical"),
     medium_risk_count  |-> Count(analyses, "Medium"),
     low_risk_count     |-> Count(analyses, "Low")]

ValueError ==
    [raised |-> TRUE, document_id |-> NoneVal, clause_analyses |-> <<>>,
     overall_summary |-> NoneVal]

\* lines 97-142, once the clauses are there
AnalysisResult(clauses, analyses) ==
    IF \E i \in 1..Len(analyses) : analyses[i].raised THEN ValueError
    ELSE [raised |-> FALSE, document_id |-> [uuid4 |-> TRUE],
          clause_analyses |->
              [i \in 1..Len(analyses) |->
                  [clause_id |-> i, original_text |-> clauses[i],
                   risk_level |-> analyses[i].risk_level]],
          overall_summary |-> OverallSummary(analyses)]

\* lines 82-142; inputs[i] is what the analyzer reads for clause i
analyze_text(text_content, clauses, analyzer, inputs) ==
    IF Len(text_content) = 0 THEN ValueError
    ELSE IF ~Truthy(clauses) THEN ValueError
    ELSE AnalysisResult(clauses,
                        [i \in 1..Len(clauses) |->
                            analyze_clause(analyzer, inputs[i])])

AnalysisInit ==
    /\ phase = "constructing"
    /\ civil_embeddings = NoneVal
    /\ criminal_embeddings = NoneVal
    /\ civil_load_failed = FALSE
    /\ criminal_load_failed = FALSE
    /\ civil_store = CollectionGet(<<>>, TRUE)
    /\ criminal_store = <<>>
    /\ civil_load_calls = 0
    /\ criminal_load_calls = 0
    /\ call = NoCall
    /\ civil_loader = Idle
    /\ app = Idle
    /\ threads = Idle
    /\ request = Idle
    /\ criminal_loader = Idle

AnalyzeText ==
    /\ app = Idle
    /\ \E text_content \in Texts, analyzer \in AppAnalyzers :
       \E clauses \in {segment_terms_conditions(text_content)} :
       \E inputs \in [1..Len(clauses) -> TextInputs(analyzer)] :
           app' = [pc |-> "text_analysed", text |-> text_content,
                   analyzer |-> analyzer,
                   clauses |-> Len(clauses),
                   result |-> analyze_text(text_content, clauses, analyzer,
                                           inputs)]
    /\ UNCHANGED <<phase, civil_embeddings, criminal_embeddings,
                   civil_load_failed, criminal_load_failed, civil_store,
                   criminal_store, civil_load_calls, criminal_load_calls,
                   call, civil_loader, threads, request,
                   criminal_loader>>

AnalyzeClause ==
    /\ app = Idle
    /\ \E analyzer \in Analyzers :
       \E input \in Inputs(analyzer) :
           app' = [pc |-> "clause_analysed", analyzer |-> analyzer,
                   input |-> input,
                   result |-> analyze_clause(analyzer, input)]
    /\ UNCHANGED <<phase, civil_embeddings, criminal_embeddings,
                   civil_load_failed, criminal_load_failed, civil_store,
                   criminal_store, civil_load_calls, criminal_load_calls,
                   call, civil_loader, threads, request,
                   criminal_loader>>

\* the caller takes the result
Return ==
    /\ app # Idle
    /\ app' = Idle
    /\ UNCHANGED <<phase, civil_embeddings, criminal_embeddings,
                   civil_load_failed, criminal_load_failed, civil_store,
                   criminal_store, civil_load_calls, criminal_load_calls,
                   call, civil_loader, threads, request,
                   criminal_loader>>

AnalysisNext == AnalyzeText \/ AnalyzeClause \/ Return

AnalysisSpec == AnalysisInit /\ [][AnalysisNext]_vars

----------------------------------------------------------------------------
(* Request threads on the one TermsAnalyzer of views.py (line 165), whose
   RealVectorDB they share.  Each thread runs get_legal_context as
   TermsAnalyzer.analyze_text calls it (line 90), and the interpreter may
   switch threads between any two statements: a search is the test of line
   321 / 358, the load of line 322 / 359, the assignment of the latch (line
   323 / 360) and the ranking (lines 326-353 / 363-390).  No statement of
   the module takes a lock. *)

Threads == {1, 2}

DefaultNResults == 3

\* the stores the shared object was constructed on
ThreadStorePairs ==
    {pair \in StorePairs :
        /\ pair[1].documents \in {<<"A", "T">>, <<"W">>}
        /\ Len(pair[2]) <= 1}

NotStarted == [pc |-> "idle"]

Started(query_text, n_results) ==
    [pc |-> "test", corpus |-> "civil", query_text |-> query_text,
     n_results |-> n_results, civil_code |-> NoneVal,
     criminal_code |-> NoneVal]

\* the object once __init__ has returned, no request running
ThreadInit ==
    /\ phase = "ready"
    /\ \E pair \in ThreadStorePairs :
          /\ civil_store = pair[1]
          /\ criminal_store = pair[2]
    /\ \E criminal_stage \in CriminalStages, civil_stage \in CivilStages :
          /\ criminal_embeddings =
                 _load_criminal_code_embeddings(
                     NoneVal, criminal_stage,
                     criminal_store).criminal_embeddings
          /\ civil_embeddings =
                 _load_civil_code_embeddings(
                     NoneVal, civil_stage, civil_store).civil_embeddings
    /\ civil_load_failed = FALSE
    /\ criminal_load_failed = FALSE
    /\ civil_load_calls = 1
    /\ criminal_load_calls = 1
    /\ call = NoCall
    /\ civil_loader = Idle
    /\ app = Idle
    /\ threads = [t \in Threads |-> NotStarted]
    /\ request = Idle
    /\ criminal_loader = Idle

\* the fields a search reads, as the thread finds them at this statement
FieldsNow(corpus) ==
    IF corpus = "civil"
    THEN [embeddings |-> civil_embeddings, load_failed |-> civil_load_failed,
          loads |-> 0,
          usable |-> civil_embeddings # NoneVal
                     /\ civil_embeddings.embeddings # NoneVal]
    ELSE [embeddings |-> criminal_embeddings,
          load_failed |-> criminal_load_failed, loads |-> 0,
          usable |-> criminal_embeddings # NoneVal
                     /\ criminal_embeddings.embeddings # NoneVal]

\* the thread leaves its search with a list: on to the criminal search, or
\* to the return of line 405
AfterSearch(thread, results) ==
    IF thread.corpus = "civil"
    THEN [thread EXCEPT !.pc = "test", !.corpus = "criminal",
                        !.civil_code = results]
    ELSE [thread EXCEPT !.pc = "return", !.criminal_code = results]

\* line 90 of views.py: a thread enters get_legal_context
Enter(t) ==
    /\ threads[t].pc = "idle"
    /\ \E query_text \in QueryTexts :
           threads' = [threads EXCEPT
                           ![t] = Started(query_text, DefaultNResults)]
    /\ UNCHANGED <<phase, civil_embeddings, criminal_embeddings,
                   civil_load_failed, criminal_load_failed, civil_store,
                   criminal_store, civil_load_calls, criminal_load_calls,
                   call, civil_loader, app, request, criminal_loader>>

\* line 321 / 358: not loaded and not latched ?
TestLoaded(t) ==
    /\ threads[t].pc = "test"
    /\ threads' =
           [threads EXCEPT
                ![t].pc =
                    IF /\ FieldsNow(threads[t].corpus).embeddings = NoneVal
                       /\ ~FieldsNow(threads[t].corpus).load_failed
                    THEN "load" ELSE "rank"]
    /\ UNCHANGED <<phase, civil_embeddings, criminal_embeddings,
                   civil_load_failed, criminal_load_failed, civil_store,
                   criminal_store, civil_load_calls, criminal_load_calls,
                   call, civil_loader, app, request, criminal_loader>>

\* line 322: the thread runs _load_civil_code_embeddings
LoadCivil(t) ==
    /\ threads[t].pc = "load"
    /\ threads[t].corpus = "civil"
    /\ \E stage \in CivilStages :
       \E load \in {_load_civil_code_embeddings(civil_embeddings, stage,
                                                 civil_store)} :
           /\ civil_embeddings' = load.civil_embeddings
           /\ threads' = [threads EXCEPT
                              ![t].pc = IF load.ret THEN "rank" ELSE "latch"]
    /\ civil_load_calls' = civil_load_calls + 1
    /\ UNCHANGED <<phase, criminal_embeddings, civil_load_failed,
                   criminal_load_failed, civil_store, criminal_store,
                   criminal_load_calls, call, civil_loader, app, request,
                   criminal_loader>>

\* line 359: the thread runs _load_criminal_code_embeddings
LoadCriminal(t) ==
    /\ threads[t].pc = "load"
    /\ threads[t].corpus = "criminal"
    /\ \E stage \in CriminalStages :
       \E load \in {_load_criminal_code_embeddings(criminal_embeddings,
                                                    stage, criminal_store)} :
           /\ criminal_embeddings' = load.criminal_embeddings
           /\ threads' = [threads EXCEPT
                              ![t].pc = IF load.ret THEN "rank" ELSE "latch"]
    /\ criminal_load_calls' = criminal_load_calls + 1
    /\ UNCHANGED <<phase, civil_embeddings, civil_load_failed,
                   criminal_load_failed, civil_store, criminal_store,
                   civil_load_calls, call, civil_loader, app, request,
                   criminal_loader>>

\* lines 323-324 / 360-361: set the latch and return the fallback
Latch(t) ==
    /\ threads[t].pc = "latch"
    /\ IF threads[t].corpus = "civil"
       THEN /\ civil_load_failed' = TRUE
            /\ threads' = [threads EXCEPT
                               ![t] = AfterSearch(threads[t],
                                                  _fallback_civil_context)]
            /\ UNCHANGED criminal_load_failed
       ELSE /\ criminal_load_failed' = TRUE
            /\ threads' = [threads EXCEPT
                               ![t] = AfterSearch(threads[t],
                                                  _fallback_criminal_context)]
            /\ UNCHANGED civil_load_failed
    /\ UNCHANGED <<phase, civil_embeddings, criminal_embeddings, civil_store,
                   criminal_store, civil_load_calls, criminal_load_calls,
                   call, civil_loader, app, request, criminal_loader>>

\* lines 326-353 / 363-390 on the fields as they are now; an exception of
\* the ranking leaves get_legal_context and ends the request
Rank(t) ==
    /\ threads[t].pc = "rank"
    /\ \E provider \in ProviderOutcomes :
       \E out \in {IF threads[t].corpus = "civil"
                   THEN civil_search(
                            FieldsNow("civil"), provider.failed,
                            _create_query_embedding(threads[t].query_text,
                                                    provider),
                            civil_n_results(threads[t].n_results))
                   ELSE criminal_search(
                            FieldsNow("criminal"), provider.failed,
                            _create_query_embedding(threads[t].query_text,
                                                    provider),
                            criminal_n_results(threads[t].n_results))} :
           threads' = [threads EXCEPT
                           ![t] = IF out.raised THEN NotStarted
                                  ELSE AfterSearch(threads[t], out.results)]
    /\ UNCHANGED <<phase, civil_embeddings, criminal_embeddings,
                   civil_load_failed, criminal_load_failed, civil_store,
                   criminal_store, civil_load_calls, criminal_load_calls,
                   call, civil_loader, app, request, criminal_loader>>

\* lines 405-408: the bundle goes back to the caller
ReturnBundle(t) ==
    /\ threads[t].pc = "return"
    /\ threads' = [threads EXCEPT ![t] = NotStarted]
    /\ UNCHANGED <<phase, civil_embeddings, criminal_embeddings,
                   civil_load_failed, criminal_load_failed, civil_store,
                   criminal_store, civil_load_calls, criminal_load_calls,
                   call, civil_loader, app, request, criminal_loader>>

ThreadNext ==
    \E t \in Threads :
        \/ Enter(t)
        \/ TestLoaded(t)
        \/ LoadCivil(t)
        \/ LoadCriminal(t)
        \/ Latch(t)
        \/ Rank(t)
        \/ ReturnBundle(t)

ThreadSpec == ThreadInit /\ [][ThreadNext]_vars

----------------------------------------------------------------------------
(* analyze_document, the POST /api/analyze handler of web_app.py and of
   backend/app/main.py.  An upload is its filename and what its bytes are;
   a form text is absent, empty, blank or a text.  HTTPException derives
   from Exception. *)

\* file: absent, or an UploadFile with its filename and its bytes
Uploads ==
    {[present |-> FALSE, filename |-> "", content |-> "none"]}
    \cup {[present |-> TRUE, filename |-> f, content |-> c] :
             f \in {"", "terms.txt", "TERMS.TXT", "terms.pdf"},
             c \in {"text", "blank", "not_utf8"}}

FormTexts == {"none", "empty", "blank", "text"}

WebApps == {"web_app", "backend"}

\* how the analysis of a non-blank text ends
AnalysisOutcomes == {"ok", "raises", "no_clauses", "nothing_analysed"}

HTTPException(status_code) == [raised |-> TRUE, status |-> status_code]

Response == [raised |-> FALSE, status |-> 200]

\* filename.lower().endswith('.txt')
endswith_txt(filename) == filename \in {"terms.txt", "TERMS.TXT"}

\* lines 334-348 of web_app.py: the text, or the exception raised on the way
web_document_text(file, text_content) ==
    IF file.present
    THEN IF file.filename = ""
         THEN HTTPException(400)
         ELSE IF ~endswith_txt(file.filename)
         THEN HTTPException(400)
         ELSE IF file.content = "not_utf8"
         THEN [raised |-> TRUE, status |-> 0]
         ELSE [raised |-> FALSE, text |-> file.content]
    ELSE IF text_content \in {"blank", "text"}
    THEN [raised |-> FALSE, text |-> text_content]
    ELSE HTTPException(400)

\* lines 61-72 of backend/app/main.py; extract_text_from_file returns the
\* text of the upload or raises
backend_document_text(file, text_content) ==
    IF file.present
    THEN IF file.filename = ""
         THEN HTTPException(400)
         ELSE IF file.content = "not_utf8"
         THEN [raised |-> TRUE, status |-> 0]
         ELSE [raised |-> FALSE, text |-> file.content]
    ELSE IF text_content \in {"blank", "text"}
    THEN [raised |-> FALSE, text |-> text_content]
    ELSE HTTPException(400)

\* the body of the try block: the response, or the exception that leaves it
try_body(web_app, document, analysis) ==
    IF document.raised THEN document
    ELSE IF document.text = "blank" THEN HTTPException(400)
    ELSE IF analysis = "ok" THEN Response
    ELSE IF web_app = "web_app" THEN [raised |-> TRUE, status |-> 0]
    ELSE IF analysis = "no_clauses" THEN HTTPException(400)
    ELSE IF analysis = "nothing_analysed" THEN HTTPException(500)
    ELSE [raised |-> TRUE, status |-> 0]

\* except Exception as e: raise HTTPException(status_code=500, ...)
except_Exception(outcome) ==
    IF outcome.raised THEN HTTPException(500) ELSE outcome

analyze_document(web_app, file, text_content, analysis) ==
    except_Exception(
        try_body(web_app,
                 IF web_app = "web_app"
                 THEN web_document_text(file, text_content)
                 ELSE backend_document_text(file, text_content),
                 analysis))

WebInit ==
    /\ phase = "constructing"
    /\ civil_embeddings = NoneVal
    /\ criminal_embeddings = NoneVal
    /\ civil_load_failed = FALSE
    /\ criminal_load_failed = FALSE
    /\ civil_store = CollectionGet(<<>>, TRUE)
    /\ criminal_store = <<>>
    /\ civil_load_calls = 0
    /\ criminal_load_calls = 0
    /\ call = NoCall
    /\ civil_loader = Idle
    /\ app = Idle
    /\ threads = Idle
    /\ request = Idle
    /\ criminal_loader = Idle

\* a request arrives and the handler answers it
AnalyzeDocument ==
    /\ request = Idle
    /\ \E web_app \in WebApps, file \in Uploads, text_content \in FormTexts,
          analysis \in AnalysisOutcomes :
           request' =
               [pc |-> "answered", web_app |-> web_app, file |-> file,
                text_content |-> text_content, analysis |-> analysis,
                status |-> analyze_document(web_app, file, text_content,
                                            analysis).status]
    /\ UNCHANGED <<phase, civil_embeddings, criminal_embeddings,
                   civil_load_failed, criminal_load_failed, civil_store,
                   criminal_store, civil_load_calls, criminal_load_calls,
                   call, civil_loader, app, threads, criminal_loader>>

\* the answer is sent
SendResponse ==
    /\ request.pc = "answered"
    /\ request' = Idle
    /\ UNCHANGED <<phase, civil_embeddings, criminal_embeddings,
                   civil_load_failed, criminal_load_failed, civil_store,
                   criminal_store, civil_load_calls, criminal_load_calls,
                   call, civil_loader, app, threads, criminal_loader>>

WebNext == AnalyzeDocument \/ SendResponse

WebSpec == WebInit /\ [][WebNext]_vars

----------------------------------------------------------------------------
(* _load_criminal_code_embeddings step by step, with the SQLite connection
   it opens on line 224: "none" before sqlite3.connect has returned, then
   "open" until conn.close() runs.  Every statement that talks to SQLite
   can raise sqlite3.OperationalError or sqlite3.DatabaseError, which the
   handlers of lines 292-297 answer with return False. *)

SqliteInit ==
    /\ phase = "constructing"
    /\ civil_embeddings = NoneVal
    /\ criminal_embeddings = NoneVal
    /\ civil_load_failed = FALSE
    /\ criminal_load_failed = FALSE
    /\ civil_store = CollectionGet(<<>>, TRUE)
    /\ criminal_store \in CriminalStores
    /\ civil_load_calls = 0
    /\ criminal_load_calls = 1
    /\ call = NoCall
    /\ civil_loader = Idle
    /\ app = Idle
    /\ threads = Idle
    /\ request = Idle
    /\ criminal_loader = [pc |-> "check_file", conn |-> "none", ret |-> FALSE]

\* the loader returns False through a return statement or a handler
ReturnFalse(loader) == [loader EXCEPT !.pc = "done", !.ret = FALSE]

SqliteUnchanged ==
    UNCHANGED <<phase, civil_embeddings, civil_load_failed,
                criminal_load_failed, civil_store, criminal_store,
                civil_load_calls, criminal_load_calls, call, civil_loader,
                app, threads, request>>

\* lines 192-221: the file is found and readable, or the loader returns
CheckFile ==
    /\ criminal_loader.pc = "check_file"
    /\ \E stage \in {"file_missing", "not_readable", "ok"} :
           criminal_loader' =
               IF stage = "ok"
               THEN [criminal_loader EXCEPT !.pc = "connect"]
               ELSE ReturnFalse(criminal_loader)
    /\ UNCHANGED criminal_embeddings
    /\ SqliteUnchanged

\* lines 224-226: sqlite3.connect raises and opens nothing, or opens; the
\* PRAGMA of line 225 raises on a file that is not a database
Connect ==
    /\ criminal_loader.pc = "connect"
    /\ \E outcome \in {"connect_raises", "pragma_raises", "ok"} :
           criminal_loader' =
               CASE outcome = "connect_raises" -> ReturnFalse(criminal_loader)
                 [] outcome = "pragma_raises" ->
                        ReturnFalse([criminal_loader EXCEPT !.conn = "open"])
                 [] OTHER -> [criminal_loader EXCEPT !.pc = "count",
                                                     !.conn = "open"]
    /\ UNCHANGED criminal_embeddings
    /\ SqliteUnchanged

\* lines 229-235: the two COUNT queries; a missing table raises
CountQueries ==
    /\ criminal_loader.pc = "count"
    /\ \E outcome \in {"no_such_table", "ok"} :
           criminal_loader' =
               IF outcome = "ok"
               THEN [criminal_loader EXCEPT !.pc = "select"]
               ELSE ReturnFalse(criminal_loader)
    /\ UNCHANGED criminal_embeddings
    /\ SqliteUnchanged

\* lines 238-246: the join and fetchall; a query error raises
SelectRows ==
    /\ criminal_loader.pc = "select"
    /\ \E outcome \in {"query_error", "ok"} :
           criminal_loader' =
               IF outcome = "ok"
               THEN [criminal_loader EXCEPT !.pc = "decode"]
               ELSE ReturnFalse(criminal_loader)
    /\ UNCHANGED criminal_embeddings
    /\ SqliteUnchanged

\* lines 248-290: the rows are decoded and the index is built; conn.close()
\* runs on lines 281 and 289, and not when np.array raises (line 298)
DecodeAndBuild ==
    /\ criminal_loader.pc = "decode"
    /\ \E stage \in {"ok", "ok_legacy_numpy"} :
       \E load \in {_load_criminal_code_embeddings(criminal_embeddings,
                                                    stage, criminal_store)} :
           /\ criminal_embeddings' = load.criminal_embeddings
           /\ criminal_loader' =
                  [pc |-> "done", ret |-> load.ret,
                   conn |-> IF load.ret
                               \/ ~Truthy(SelectSeq(criminal_store,
                                                    RowIsKept))
                            THEN "closed" ELSE "open"]
    /\ SqliteUnchanged

SqliteNext ==
    CheckFile \/ Connect \/ CountQueries \/ SelectRows \/ DecodeAndBuild

SqliteSpec == SqliteInit /\ [][SqliteNext]_vars

----------------------------------------------------------------------------
(* Vocabulary of the properties *)

CivilLoaded ==
    /\ civil_embeddings # NoneVal
    /\ civil_embeddings.embeddings # NoneVal

CriminalLoaded ==
    /\ criminal_embeddings # NoneVal
    /\ criminal_embeddings.embeddings # NoneVal

CivilMatrix == civil_embeddings.embeddings.array

CriminalMatrix == criminal_embeddings.embeddings.array

\* the searches of the last call that ranked their index to the end
CivilRanked == call.civil.embedded /\ ~call.civil.raised

CriminalRanked == call.criminal.embedded /\ ~call.criminal.raised

FloatGe(x, y) == FloatGt(x, y) \/ FloatEq(x, y)

SimilarityOfRow(query, matrix, i) == _cosine_similarity(query, matrix[i]).value

Relevant(x) == FloatGt(x, Threshold)

\* the similarities above the threshold, in stored order
RelevantSimilarities(query, matrix) ==
    SelectSeq([i \in 1..Len(matrix) |-> SimilarityOfRow(query, matrix, i)],
              Relevant)

\* a sequence of comparable floats in non-increasing order
RECURSIVE Descending(_)
Descending(s) ==
    IF Len(s) = 0 THEN <<>>
    ELSE LET m == CHOOSE i \in 1..Len(s) :
                      \A j \in 1..Len(s) : ~FloatGt(s[j], s[i])
             rest == [j \in 1..(Len(s) - 1) |->
                         IF j < m THEN s[j] ELSE s[j + 1]]
         IN  <<s[m]>> \o Descending(rest)

SameSimilarities(results, expected) ==
    /\ Len(results) = Len(expected)
    /\ \A j \in 1..Len(results) : FloatEq(results[j].similarity, expected[j])

NonIncreasing(results) ==
    \A j \in 1..(Len(results) - 1) :
        FloatGe(results[j].similarity, results[j + 1].similarity)

\* where stored row i stands in a civil / criminal result list (0: absent)
CivilPosition(results, i) ==
    IF \E j \in 1..Len(results) : results[j].metadata.paragraph = ToString(i)
    THEN CHOOSE j \in 1..Len(results) :
             results[j].metadata.paragraph = ToString(i)
    ELSE 0

CriminalPosition(results, i) ==
    IF \E j \in 1..Len(results) : results[j].paragraph_number = ToString(i)
    THEN CHOOSE j \in 1..Len(results) :
             results[j].paragraph_number = ToString(i)
    ELSE 0

----------------------------------------------------------------------------
(* C1: every bundle get_legal_context returns has a non-empty civil_code
   list and a non-empty criminal_code list, whatever the load outcomes of
   the two corpora were. *)
C1_BundleNeverEmpty ==
    call.status = "returned" =>
        /\ Len(call.civil.results) > 0
        /\ Len(call.criminal.results) > 0

\* a bundle mixing index results of a lazily loaded civil corpus with the
\* fallback of a criminal corpus whose load failed at the first query
C1_Witness ==
    /\ call.status = "returned"
    /\ call.civil.from_index
    /\ civil_load_calls = 2
    /\ criminal_load_failed

(* C2: get_legal_context never ends in an exception. *)
C2_NeverRaises == call.status # "raised"

(* C3: when the load of a corpus fails, its load function is invoked at most
   once over the lifetime of the object: a corpus whose loads all failed
   has seen at most one load. *)
C3_FailedLoadTriedOnce ==
    /\ criminal_embeddings = NoneVal => criminal_load_calls <= 1
    /\ civil_embeddings = NoneVal => civil_load_calls <= 1

(* C4: per corpus the availability only moves NotLoaded -> Loaded or
   NotLoaded -> FailedLatched: a loaded corpus stays loaded and unchanged;
   a set latch stays set, its corpus never becomes loaded and no later
   query returns index results for it; the latch is only ever set on a
   corpus that is not loaded. *)
C4_OneWayAvailability ==
    [][ /\ CivilLoaded => (CivilLoaded' /\ civil_embeddings' = civil_embeddings)
        /\ CriminalLoaded =>
               (CriminalLoaded' /\ criminal_embeddings' = criminal_embeddings)
        /\ civil_load_failed =>
               (civil_load_failed' /\ ~CivilLoaded' /\ ~call'.civil.from_index)
        /\ criminal_load_failed =>
               /\ criminal_load_failed'
               /\ ~CriminalLoaded'
               /\ ~call'.criminal.from_index
        /\ (~civil_load_failed /\ civil_load_failed') => ~CivilLoaded
        /\ (~criminal_load_failed /\ criminal_load_failed') => ~CriminalLoaded
      ]_vars

\* a query answered after the civil latch was set, beside a loaded criminal
\* corpus that served it from its index
C4_Witness ==
    /\ civil_load_failed
    /\ call.status = "returned"
    /\ call.civil.loads = 0
    /\ CriminalLoaded
    /\ call.criminal.from_index

(* C5: a list a search returns from its index is in non-increasing order of
   similarity. *)
C5_NonIncreasingResults ==
    /\ call.civil.from_index => NonIncreasing(call.civil.results)
    /\ call.criminal.from_index => NonIncreasing(call.criminal.results)

(* C6: of two stored passages with exactly equal similarity to the query,
   the later-stored one is returned only together with, and after, the
   earlier-stored one. *)
C6_TiesInInsertionOrder ==
    /\ call.civil.from_index =>
           \A a, b \in 1..Len(CivilMatrix) :
               (/\ a < b
                /\ FloatEq(SimilarityOfRow(call.civil.query, CivilMatrix, a),
                           SimilarityOfRow(call.civil.query, CivilMatrix, b))
                /\ CivilPosition(call.civil.results, b) > 0)
               => /\ CivilPosition(call.civil.results, a) > 0
                  /\ CivilPosition(call.civil.results, a)
                         < CivilPosition(call.civil.results, b)
    /\ call.criminal.from_index =>
           \A a, b \in 1..Len(CriminalMatrix) :
               (/\ a < b
                /\ FloatEq(
                       SimilarityOfRow(call.criminal.query, CriminalMatrix, a),
                       SimilarityOfRow(call.criminal.query, CriminalMatrix, b))
                /\ CriminalPosition(call.criminal.results, b) > 0)
               => /\ CriminalPosition(call.criminal.results, a) > 0
                  /\ CriminalPosition(call.criminal.results, a)
                         < CriminalPosition(call.criminal.results, b)

(* C7: when some stored passage has similarity above 0.3, the similarities
   of the returned list are the first k of the above-threshold similarities
   in descending order. *)
C7_TopKAboveThreshold ==
    /\ (/\ CivilRanked
        /\ Len(RelevantSimilarities(call.civil.query, CivilMatrix)) > 0)
       => SameSimilarities(
              call.civil.results,
              SubSeq(Descending(
                         RelevantSimilarities(call.civil.query, CivilMatrix)),
                     1,
                     Min(call.civil.k,
                         Len(RelevantSimilarities(call.civil.query,
                                                  CivilMatrix)))))
    /\ (/\ CriminalRanked
        /\ Len(RelevantSimilarities(call.criminal.query, CriminalMatrix)) > 0)
       => SameSimilarities(
              call.criminal.results,
              SubSeq(Descending(
                         RelevantSimilarities(call.criminal.query,
                                              CriminalMatrix)),
                     1,
                     Min(call.criminal.k,
                         Len(RelevantSimilarities(call.criminal.query,
                                                  CriminalMatrix)))))

(* C8: when a corpus is loaded and no stored vector has similarity above
   the threshold to the query, the list get_legal_context returns for that
   corpus is exactly its fallback context. *)
C8_NoMatchGivesFallbackSet ==
    call.status = "returned" =>
        /\ (/\ CivilRanked
            /\ Len(RelevantSimilarities(call.civil.query, CivilMatrix)) = 0)
           => call.civil.results = _fallback_civil_context
        /\ (/\ CriminalRanked
            /\ Len(RelevantSimilarities(call.criminal.query,
                                        CriminalMatrix)) = 0)
           => call.criminal.results = _fallback_criminal_context

\* both corpora loaded and ranked, the civil one with two passages, none of
\* them above the threshold
C8_Witness ==
    /\ call.status = "returned"
    /\ CivilRanked
    /\ Len(CivilMatrix) >= 2
    /\ \E i \in 1..Len(CivilMatrix) :
           ~IsNaN(SimilarityOfRow(call.civil.query, CivilMatrix, i))
    /\ Len(RelevantSimilarities(call.civil.query, CivilMatrix)) = 0
    /\ CriminalRanked
    /\ Len(RelevantSimilarities(call.criminal.query, CriminalMatrix)) = 0

(* C9: when a corpus is unavailable (never loaded, load failed, or loaded
   without embeddings), every call returns its complete fallback context
   for it and does not ask the embedding provider on its behalf. *)
C9_UnavailableGivesFallbackSet ==
    /\ (call.civil.invoked /\ ~CivilLoaded) =>
           /\ call.civil.results = _fallback_civil_context
           /\ ~call.civil.embedded
    /\ (call.criminal.invoked /\ ~CriminalLoaded) =>
           /\ call.criminal.results = _fallback_criminal_context
           /\ ~call.criminal.embedded

\* the civil corpus loaded without embeddings, the criminal one latched,
\* and a call with a budget below the size of either fallback context
C9_Witness ==
    /\ call.status = "returned"
    /\ call.n_results = 1
    /\ civil_embeddings # NoneVal
    /\ civil_embeddings.embeddings = NoneVal
    /\ criminal_load_failed
    /\ call.criminal.loads = 0

(* C10: get_legal_context queries the civil corpus with k = n_results and
   the criminal corpus with k = max(1, n_results // 2): the criminal k is
   1 for n_results = 1, the half of n_results rounded down otherwise, never
   0 and never above the civil k. *)
C10_ResultBudgets ==
    /\ call.civil.invoked => call.civil.k = call.n_results
    /\ call.criminal.invoked =>
           /\ call.n_results = 1 => call.criminal.k = 1
           /\ call.n_results > 1 =>
                  /\ 2 * call.criminal.k <= call.n_results
                  /\ call.n_results <= 2 * call.criminal.k + 1
           /\ call.criminal.k >= 1
           /\ call.criminal.k <= call.civil.k

\* a call with n_results = 1, where the floor alone would give 0, and the
\* criminal index answering within that budget
C10_Witness ==
    /\ call.status = "returned"
    /\ call.n_results = 1
    /\ call.criminal.k = 1
    /\ call.criminal.from_index

ZeroNorm(v) == np_dot(v, v) = 0

Zero == Float(0, 1)

(* C11: when the query vector or a stored vector has zero norm, the
   similarity computed for that pair is the value 0.0, neither an error
   nor NaN. *)
C11_ZeroNormSimilarityIsZero ==
    /\ CivilRanked =>
           \A i \in 1..Len(CivilMatrix) :
               (ZeroNorm(call.civil.query) \/ ZeroNorm(CivilMatrix[i]))
               => FloatEq(SimilarityOfRow(call.civil.query, CivilMatrix, i),
                          Zero)
    /\ CriminalRanked =>
           \A i \in 1..Len(CriminalMatrix) :
               (ZeroNorm(call.criminal.query) \/ ZeroNorm(CriminalMatrix[i]))
               => FloatEq(SimilarityOfRow(call.criminal.query,
                                          CriminalMatrix, i),
                          Zero)

\* both searches of the call fell back on the placeholder vector
BothPlaceholders ==
    /\ call.civil.embedded /\ call.civil.provider_failed
    /\ call.criminal.embedded /\ call.criminal.provider_failed

(* C12: when the embedding provider fails, the placeholder query vector is a
   function of the input text: the civil and the criminal search of one
   get_legal_context call, which embed the same text, use the same
   placeholder vector. *)
C12_PlaceholderIsFunctionOfText ==
    BothPlaceholders => call.civil.query = call.criminal.query

\* a retrieved row whose blob is a whole number of float32 values
ValidRow(row) ==
    /\ row.embedding.nbytes > 0
    /\ row.embedding.nbytes % Float32Bytes = 0

OddBlob(row) == row.embedding.nbytes % Float32Bytes # 0

ValidRows == SelectSeq(criminal_store, ValidRow)

(* C13: a retrieved row whose blob length is not divisible by 4 is skipped
   and the load goes on: a load that reaches the rows succeeds when a valid
   row remains, and the loaded index holds exactly the valid rows, in
   retrieval order. *)
C13_OddBlobSkipped ==
    (\E i \in 1..Len(criminal_store) : OddBlob(criminal_store[i])) =>
        /\ Len(ValidRows) > 0 =>
               \A stage \in {"ok", "ok_legacy_numpy"} :
                   _load_criminal_code_embeddings(
                       criminal_embeddings, stage, criminal_store).ret
        /\ criminal_embeddings # NoneVal =>
               /\ Len(criminal_embeddings.documents) = Len(ValidRows)
               /\ Len(CriminalMatrix) = Len(ValidRows)
               /\ Len(criminal_embeddings.metadatas) = Len(ValidRows)
               /\ \A i \in 1..Len(ValidRows) :
                      /\ criminal_embeddings.documents[i] = ValidRows[i].text
                      /\ CriminalMatrix[i].c = ValidRows[i].embedding.floats
                      /\ criminal_embeddings.metadatas[i].paragraph_number
                             = ValidRows[i].cislo

\* an odd blob ahead of a valid row, the valid row loaded and found by a query
C13_Witness ==
    /\ Len(criminal_store) = 2
    /\ OddBlob(criminal_store[1])
    /\ CriminalLoaded
    /\ call.status = "returned"
    /\ call.criminal.from_index

\* the valid rows of the store do not all decode to one length
RaggedStore ==
    \E i, j \in 1..Len(ValidRows) :
        ValidRows[i].embedding.nbytes # ValidRows[j].embedding.nbytes

(* C14: when a retrieved row decodes to a vector of another length than the
   other rows, that row alone is skipped: a load that reaches the rows
   reports success, the loaded index holds vectors of one length, and the
   queries on it do not end in an error. *)
C14_RaggedRowSkipped ==
    (phase = "ready" /\ RaggedStore) =>
        /\ \A stage \in {"ok", "ok_legacy_numpy"} :
               _load_criminal_code_embeddings(
                   criminal_embeddings, stage, criminal_store).ret
        /\ CriminalLoaded =>
               \A i, j \in 1..Len(CriminalMatrix) :
                   CriminalMatrix[i].dim = CriminalMatrix[j].dim
        /\ ~call.criminal.raised

(* C15: when no valid record remains after the invalid rows are skipped, or
   the store returns no documents at all, the load of that corpus reports
   failure, the corpus stays without an index and its queries return the
   fallback context. *)
C15_EmptyCorpusIsLoadFailure ==
    /\ Len(ValidRows) = 0 =>
           /\ \A stage \in CriminalStages :
                  ~_load_criminal_code_embeddings(
                       criminal_embeddings, stage, criminal_store).ret
           /\ criminal_embeddings = NoneVal
           /\ call.criminal.loads = 1 => criminal_load_failed
           /\ call.criminal.invoked =>
                  call.criminal.results = _fallback_criminal_context
    /\ ~Truthy(civil_store.documents) =>
           /\ \A stage \in CivilStages :
                  ~_load_civil_code_embeddings(
                       civil_embeddings, stage, civil_store).ret
           /\ civil_embeddings = NoneVal
           /\ call.civil.loads = 1 => civil_load_failed
           /\ call.civil.invoked =>
                  call.civil.results = _fallback_civil_context

\* rows were retrieved, none of them valid, and a query's load came back
\* False
C15_Witness ==
    /\ Len(criminal_store) = 2
    /\ Len(ValidRows) = 0
    /\ call.status = "returned"
    /\ call.criminal.loads = 1
    /\ criminal_load_failed

(* C16: both load functions end with a boolean and let no exception out,
   whichever stage fails and whatever the store holds. *)
C16_LoadersNeverRaise ==
    /\ \A stage \in CivilStages :
           /\ ~_load_civil_code_embeddings(
                   civil_embeddings, stage, civil_store).raised
           /\ _load_civil_code_embeddings(
                  civil_embeddings, stage, civil_store).ret \in BOOLEAN
    /\ \A stage \in CriminalStages :
           /\ ~_load_criminal_code_embeddings(
                   criminal_embeddings, stage, criminal_store).raised
           /\ _load_criminal_code_embeddings(
                  criminal_embeddings, stage, criminal_store).ret \in BOOLEAN

\* both loaders have come back False from a query although their stores
\* hold valid passages: a stage failed, and the call still returned
C16_Witness ==
    /\ call.status = "returned"
    /\ call.civil.loads = 1
    /\ civil_load_failed
    /\ Truthy(civil_store.documents)
    /\ Truthy(civil_store.embeddings)
    /\ call.criminal.loads = 1
    /\ criminal_load_failed
    /\ Len(ValidRows) > 0

\* entry i of the loaded criminal lists comes from one and the same row
CriminalEntryOfOneRow(i) ==
    \E r \in 1..Len(criminal_store) :
        /\ criminal_embeddings.documents[i] = criminal_store[r].text
        /\ CriminalMatrix[i].c = criminal_store[r].embedding.floats
        /\ criminal_embeddings.metadatas[i].paragraph_number
               = criminal_store[r].cislo

(* C20: whenever a corpus is loaded, its documents, embeddings and metadatas
   have one length and entry i of each belongs to the same stored passage;
   every entry a ranking returns is the text and the label of the row whose
   vector gave its similarity. *)
C20_ListsCoIndexed ==
    /\ CivilLoaded =>
           /\ Len(civil_embeddings.documents) = Len(CivilMatrix)
           /\ Len(civil_embeddings.metadatas) = Len(CivilMatrix)
           /\ \A i \in 1..Len(CivilMatrix) :
                  /\ civil_embeddings.documents[i] = civil_store.documents[i]
                  /\ CivilMatrix[i] = civil_store.embeddings[i]
                  /\ civil_embeddings.metadatas[i] = civil_store.metadatas[i]
           /\ call.civil.from_index =>
                  \A j \in 1..Len(call.civil.results) :
                      \E i \in 1..Len(CivilMatrix) :
                          /\ call.civil.results[j].text
                                 = civil_embeddings.documents[i]
                          /\ call.civil.results[j].metadata
                                 = civil_embeddings.metadatas[i]
                          /\ call.civil.results[j].similarity
                                 = SimilarityOfRow(call.civil.query,
                                                   CivilMatrix, i)
    /\ CriminalLoaded =>
           /\ Len(criminal_embeddings.documents) = Len(CriminalMatrix)
           /\ Len(criminal_embeddings.metadatas) = Len(CriminalMatrix)
           /\ \A i \in 1..Len(CriminalMatrix) : CriminalEntryOfOneRow(i)
           /\ call.criminal.from_index =>
                  \A j \in 1..Len(call.criminal.results) :
                      \E i \in 1..Len(CriminalMatrix) :
                          /\ call.criminal.results[j].text
                                 = criminal_embeddings.documents[i]
                          /\ call.criminal.results[j].paragraph_number
                                 = criminal_embeddings.metadatas[i]
                                       .paragraph_number
                          /\ call.criminal.results[j].similarity
                                 = SimilarityOfRow(call.criminal.query,
                                                   CriminalMatrix, i)

\* a criminal index built from a store that lost a row on the way, and a
\* civil index of several passages, both ranked by one call
C20_Witness ==
    /\ call.status = "returned"
    /\ CriminalLoaded
    /\ Len(CriminalMatrix) < Len(criminal_store)
    /\ call.criminal.from_index
    /\ CivilLoaded
    /\ call.civil.from_index

\* a candidate on which the load can succeed: it opens and has a collection
Available(outcome) == outcome \in {"civil_code", "other_collection"}

FirstAvailable ==
    CHOOSE j \in 1..ConnectionAttempts :
        /\ Available(civil_loader.candidates[j])
        /\ \A h \in 1..(j - 1) : ~Available(civil_loader.candidates[h])

(* C19: the civil loader tries its candidate connections in order and stops
   at the first one that opens and has a collection: once the attempts are
   over, the client is the first such candidate, every candidate before it
   was tried, and the load is declared failed for want of a collection only
   when all candidates were tried. *)
C19_StopsAtFirstUsableCandidate ==
    civil_loader.pc \in {"get", "done"} =>
        IF \E j \in 1..ConnectionAttempts :
               Available(civil_loader.candidates[j])
        THEN /\ civil_loader.client = FirstAvailable
             /\ civil_loader.tried = FirstAvailable
             /\ civil_loader.collection # "none"
        ELSE /\ civil_loader.pc = "done"
             /\ ~civil_loader.ret
             /\ civil_loader.tried = ConnectionAttempts

(* C17: for every non-blank text, analyze_text returns a result with a
   document id, at least one clause analysis, and total_clauses equal to
   the number of clause analyses and to the number of clauses the
   segmentation gives, which is never zero. *)
C17_NonBlankTextIsAnalysed ==
    (app.pc = "text_analysed" /\ Len(app.text) > 0) =>
        /\ ~app.result.raised
        /\ app.result.document_id # NoneVal
        /\ Len(app.result.clause_analyses) >= 1
        /\ app.result.overall_summary.total_clauses
               = Len(app.result.clause_analyses)
        /\ Len(app.result.clause_analyses) = app.clauses
        /\ app.clauses = Len(segment_terms_conditions(app.text))

\* a numbered text of three tokens, cut in two clauses, each analysed by the
\* real analyzer
C17_Witness ==
    /\ app.pc = "text_analysed"
    /\ app.analyzer = "real"
    /\ Len(app.text) = 3
    /\ ~app.result.raised
    /\ Len(app.result.clause_analyses) = 2
    /\ app.result.overall_summary.total_clauses = 2

\* the answer holds no JSON at all
Unparseable(response) == response.kind \in {"not_json", "braces_not_json"}

\* the key under which an analyzer looks for the risk
RiskKey(analyzer) == IF analyzer = "optimized" THEN "risk" ELSE "risk_level"

\* the answer is a JSON value in which the analyzer finds no valid risk
NoValidRisk(analyzer, response) ==
    /\ response.kind = "json"
    /\ \/ response.data.shape # "dict"
       \/ response.data.key # RiskKey(analyzer)
       \/ response.data.value \notin Levels

(* C18: every ClauseAnalysis an analyzer returns has a risk level among
   Low, Medium, High and Critical, and no exception leaves analyze_clause;
   an API error, an answer that cannot be parsed and an answer with a
   missing or invalid risk value all give Medium. *)
C18_RiskLevelAlwaysValid ==
    app.pc = "clause_analysed" =>
        /\ ~app.result.raised
        /\ app.result.risk_level \in Levels
        /\ (/\ app.analyzer # "mock"
            /\ \/ app.input.kind = "api_error"
               \/ Unparseable(app.input)
               \/ NoValidRisk(app.analyzer, app.input))
           => app.result.risk_level = "Medium"

\* an answer whose risk value is no member of the enum, given to the
\* analyzer that does not validate before it builds the enum
C18_Witness ==
    /\ app.pc = "clause_analysed"
    /\ app.analyzer = "gpt"
    /\ app.input.kind = "json"
    /\ app.input.data.shape = "dict"
    /\ app.input.data.typed
    /\ app.input.data.value = "low"
    /\ app.result.risk_level = "Medium"

\* the lazy loads of a corpus: its loads after the one of the construction
LazyLoads(load_calls) == load_calls - 1

(* C21: when several threads call get_legal_context on one shared
   RealVectorDB whose corpus is neither loaded nor latched, the lazy load
   of that corpus runs once, in every interleaving: no corpus ever sees a
   second lazy load. *)
C21_LazyLoadRunsOnce ==
    /\ LazyLoads(civil_load_calls) <= 1
    /\ LazyLoads(criminal_load_calls) <= 1

\* a loaded index as a search finds it
LoadedFields(index) ==
    [embeddings |-> index, load_failed |-> FALSE, loads |-> 0,
     usable |-> TRUE]

\* the report of a search agrees with an outcome in what the caller sees
SameOutcome(report, out) ==
    /\ report.raised = out.raised
    /\ report.results = out.results
    /\ report.from_index = out.from_index

(* C22: once a corpus is loaded, a query is read-only on it: the step of a
   query leaves the documents, embeddings and metadatas of a loaded corpus
   as they were and loads nothing, and what the search hands back is what
   ranking that index by the query vector with its n_results gives,
   whatever was queried before. *)
C22_LoadedIndexIsReadOnly ==
    [][ /\ (CivilLoaded /\ call'.civil.invoked) =>
               /\ civil_embeddings'.documents = civil_embeddings.documents
               /\ civil_embeddings'.embeddings = civil_embeddings.embeddings
               /\ civil_embeddings'.metadatas = civil_embeddings.metadatas
               /\ call'.civil.loads = 0
               /\ SameOutcome(call'.civil,
                              civil_search(LoadedFields(civil_embeddings),
                                           call'.civil.provider_failed,
                                           call'.civil.query, call'.civil.k))
        /\ (CriminalLoaded /\ call'.criminal.invoked) =>
               /\ criminal_embeddings'.documents
                      = criminal_embeddings.documents
               /\ criminal_embeddings'.embeddings
                      = criminal_embeddings.embeddings
               /\ criminal_embeddings'.metadatas
                      = criminal_embeddings.metadatas
               /\ call'.criminal.loads = 0
               /\ SameOutcome(call'.criminal,
                              criminal_search(
                                  LoadedFields(criminal_embeddings),
                                  call'.criminal.provider_failed,
                                  call'.criminal.query, call'.criminal.k))
      ]_vars

\* a query answered from both indexes, the civil one loaded lazily by an
\* earlier query
C22_Witness ==
    /\ call.status = "returned"
    /\ call.civil.from_index
    /\ call.criminal.from_index
    /\ call.civil.loads = 0
    /\ civil_load_calls = 2
    /\ Len(civil_embeddings.documents) >= 2

\* the request carries nothing to analyse
NothingSupplied(r) ==
    ~r.file.present /\ r.text_content \in {"none", "empty"}

BadUpload(r) ==
    /\ r.file.present
    /\ \/ r.file.filename = ""
       \/ r.web_app = "web_app"
          /\ r.file.filename \notin {"terms.txt", "TERMS.TXT"}

BlankText(r) ==
    \/ r.file.present /\ ~BadUpload(r) /\ r.file.content = "blank"
    \/ ~r.file.present /\ r.text_content = "blank"

(* C23: analyze_document answers with status 400 when neither file nor
   text_content is supplied, when the upload has no filename or is not a
   .txt file, and when the text is blank; 500 is only the answer to a
   failure of the analysis itself. *)
C23_BadRequestsGet400 ==
    request.pc = "answered" =>
        /\ (NothingSupplied(request) \/ BadUpload(request)
            \/ BlankText(request)) => request.status = 400
        /\ request.status = 500 =>
               ~(NothingSupplied(request) \/ BadUpload(request)
                 \/ BlankText(request))

\* the clauses of the returned result whose risk level is the given one
RECURSIVE ClausesAt(_, _)
ClausesAt(analyses, level) ==
    IF Len(analyses) = 0 THEN 0
    ELSE (IF Head(analyses).risk_level = level THEN 1 ELSE 0)
         + ClausesAt(Tail(analyses), level)

Analysed == app.pc = "text_analysed" /\ ~app.result.raised

(* C24: the overall risk analyze_text computes is Critical iff some clause
   is Critical; otherwise High iff some clause is High; otherwise Medium
   iff there are strictly more Medium clauses than Low ones; otherwise
   Low; and the high, medium and low counts add up to total_clauses. *)
C24_OverallRisk ==
    Analysed =>
        /\ app.result.overall_summary.overall_risk_score =
               (CASE ClausesAt(app.result.clause_analyses, "Critical") > 0
                         -> "Critical"
                  [] /\ ClausesAt(app.result.clause_analyses, "Critical") = 0
                     /\ ClausesAt(app.result.clause_analyses, "High") > 0
                         -> "High"
                  [] /\ ClausesAt(app.result.clause_analyses, "Critical") = 0
                     /\ ClausesAt(app.result.clause_analyses, "High") = 0
                     /\ ClausesAt(app.result.clause_analyses, "Medium")
                            > ClausesAt(app.result.clause_analyses, "Low")
                         -> "Medium"
                  [] OTHER -> "Low")
        /\ app.result.overall_summary.high_risk_count
               + app.result.overall_summary.medium_risk_count
               + app.result.overall_summary.low_risk_count
           = app.result.overall_summary.total_clauses
        /\ app.result.overall_summary.total_clauses
           = Len(app.result.clause_analyses)

\* as many Medium clauses as Low ones, and none higher: the overall risk is
\* Low
C24_Witness ==
    /\ Analysed
    /\ ClausesAt(app.result.clause_analyses, "Medium") = 1
    /\ ClausesAt(app.result.clause_analyses, "Low") = 1
    /\ Len(app.result.clause_analyses) = 2
    /\ app.result.overall_summary.overall_risk_score = "Low"

\* a step that invokes a load function is the construction, or the first
\* query to find the corpus without index and without latch
LoadStep(load_calls, embeddings, load_failed) ==
    \/ phase = "constructing" /\ load_calls = 0
    \/ /\ phase = "ready"
       /\ load_calls = 1
       /\ embeddings = NoneVal
       /\ ~load_failed

(* C25: in sequential use of one RealVectorDB the load function of each
   corpus is invoked at most twice over the life of the object: once at
   construction and at most once more by the first query that finds the
   corpus neither loaded nor latched; no later query invokes it. *)
C25_AtMostTwoLoads ==
    [][ /\ civil_load_calls' <= 2
        /\ criminal_load_calls' <= 2
        /\ civil_load_calls' # civil_load_calls =>
               /\ civil_load_calls' = civil_load_calls + 1
               /\ LoadStep(civil_load_calls, civil_embeddings,
                           civil_load_failed)
        /\ criminal_load_calls' # criminal_load_calls =>
               /\ criminal_load_calls' = criminal_load_calls + 1
               /\ LoadStep(criminal_load_calls, criminal_embeddings,
                           criminal_load_failed)
      ]_vars

\* a query after both lazy loads: the criminal one failed and set the latch,
\* the civil one succeeded, and this query invokes neither loader
C25_Witness ==
    /\ call.status = "returned"
    /\ civil_load_calls = 2
    /\ criminal_load_calls = 2
    /\ criminal_load_failed
    /\ CivilLoaded
    /\ call.civil.loads = 0
    /\ call.criminal.invoked
    /\ call.criminal.loads = 0

(* C26: a load attempt that returns False leaves the index of its corpus
   unset: when _load_civil_code_embeddings has returned False,
   civil_embeddings is still None, and so is criminal_embeddings after any
   failed run of _load_criminal_code_embeddings on any store. *)
C26_FailedLoadLeavesIndexUnset ==
    /\ (civil_loader.pc = "done" /\ ~civil_loader.ret)
           => civil_embeddings = NoneVal
    /\ \A rows \in CriminalStores, stage \in CriminalStages :
           ~_load_criminal_code_embeddings(NoneVal, stage, rows).ret
               => _load_criminal_code_embeddings(
                      NoneVal, stage, rows).criminal_embeddings = NoneVal

(* C27, as claimed: the number of entries get_legal_context returns never
   exceeds the requested budget, len(civil_code) <= n_results and
   len(criminal_code) <= max(1, n_results // 2), on the database path and
   on the fallback path alike. *)
C27_ResultsWithinBudget ==
    call.status = "returned" =>
        /\ Len(call.civil.results) <= call.n_results
        /\ Len(call.criminal.results) <= Max(1, call.n_results \div 2)

(* C27, amended: a list that comes from an index never exceeds the budget
   of its search, n_results for the civil corpus and max(1, n_results // 2)
   for the criminal one; a list that does not come from an index is the
   FallbackSet of its corpus in full, 4 civil or 2 criminal entries,
   whatever the budget. *)
C27_IndexResultsWithinBudget ==
    /\ call.civil.from_index =>
           Len(call.civil.results) <= call.n_results
    /\ call.criminal.from_index =>
           Len(call.criminal.results) <= Max(1, call.n_results \div 2)
    /\ (call.civil.invoked /\ ~call.civil.raised /\ ~call.civil.from_index)
           => Len(call.civil.results) = 4
    /\ (call.criminal.invoked /\ ~call.criminal.raised
        /\ ~call.criminal.from_index)
           => Len(call.criminal.results) = 2

\* more stored passages above the threshold than the budget allows: the
\* civil list is cut to n_results entries, beside a criminal fallback
C27_Witness ==
    /\ call.status = "returned"
    /\ call.civil.from_index
    /\ Len(call.civil.results) = call.n_results
    /\ Len(RelevantSimilarities(call.civil.query, CivilMatrix))
           > call.n_results
    /\ ~call.criminal.from_index

\* what the civil / criminal search alone can make of the fields of its own
\* corpus for the query of the step
CivilAlone ==
    {search_civil_code(civil_embeddings, civil_load_failed,
                       call'.query_text, civil_n_results(call'.n_results),
                       stage, civil_store, provider) :
        stage \in CivilStages, provider \in ProviderOutcomes}

CriminalAlone ==
    {search_criminal_code(criminal_embeddings, criminal_load_failed,
                          call'.query_text,
                          criminal_n_results(call'.n_results), stage,
                          criminal_store, provider) :
        stage \in CriminalStages, provider \in ProviderOutcomes}

(* C28: the two corpora are independent: in every query the load outcome,
   the latch and the results of each corpus are what the search of that
   corpus makes of its own fields and store, whatever the load failures,
   the latch and the query of the other corpus are. *)
C28_CorporaIndependent ==
    [][ (call = NoCall /\ call' # NoCall) =>
            /\ \E out \in CivilAlone :
                   /\ civil_embeddings' = out.embeddings
                   /\ civil_load_failed' = out.load_failed
                   /\ call'.civil = Report(out)
            /\ \E out \in CriminalAlone :
                   /\ criminal_embeddings' = out.embeddings
                   /\ criminal_load_failed' = out.load_failed
                   /\ call'.criminal = Report(out)
      ]_vars

(* C29: every SQLite connection the criminal loader opens is closed before
   the loader returns, on the success path and on every failure path: no
   return leaves the connection open. *)
C29_ConnectionClosedOnReturn ==
    criminal_loader.pc = "done" => criminal_loader.conn # "open"

AllRelevant(results) ==
    \A j \in 1..Len(results) : Relevant(results[j].similarity)

(* C30: every entry of every list get_legal_context returns, from an index
   or from a FallbackSet, has a similarity strictly greater than 0.3, and
   each returned list is in non-increasing order of similarity. *)
C30_ReturnedListsRelevantAndOrdered ==
    call.status = "returned" =>
        /\ AllRelevant(call.civil.results)
        /\ AllRelevant(call.criminal.results)
        /\ NonIncreasing(call.civil.results)
        /\ NonIncreasing(call.criminal.results)

====
